---------------------------- MODULE Spec2Model ----------------------------
(***************************************************************************)
(* CloudDrive backend: the file, version, share and quota handlers of     *)
(* src/src/server.ts (file-operations), src/src/routes/auth-routes.ts     *)
(* (share-operations) and src/src/utils/permissions.ts, over the tables   *)
(* files, file_versions, shares, user_quotas, profiles and the object     *)
(* store bucket "files".                                                  *)
(*                                                                         *)
(* A request is a process: every `await` of a handler is one step, which   *)
(* performs the store call and runs the handler up to its next await (or   *)
(* to its response).  A store call that writes (storage upload, insert,    *)
(* update) may fail; the handler then takes its error path.  Store reads    *)
(* return the rows that are there.  Requests arrive authenticated: userId   *)
(* is the id the auth middleware took from the token.                       *)
(*                                                                         *)
(* Byte counts are in MiB (TLC integers are 32 bit; 5 GiB = 5 * 1024 MiB). *)
(***************************************************************************)
EXTENDS Integers, Sequences, FiniteSets, TLC

VARIABLES
    files,          \* table files: file id -> row
    file_versions,  \* table file_versions: rows in insertion order
    shares,         \* table shares: share id -> row
    user_quotas,    \* table user_quotas: user id -> row
    blobs,          \* object store bucket "files": the paths that hold a blob
    events,         \* realtime events the requests in the slots emitted
    nextFileId,     \* next id the database gives a files row
    nextShareId,    \* next id the database gives a shares row
    nextPath,       \* next unused storage path (Date.now() + random suffix)
    schema,         \* the unique constraints the database declares
    clock,          \* the time new Date() gives
    nextToken,      \* next unused public token (crypto.randomBytes(24))
    config,         \* process.env: which Stripe settings are present
    reqs            \* the requests in flight, one per slot

vars == <<files, file_versions, shares, user_quotas, blobs, events,
          nextFileId, nextShareId, nextPath, schema, clock, nextToken, config,
          reqs>>

\* ------------------------------------------------------------------ bounds
MaxFiles == 2
MaxPaths == 4
MaxVersions == 3
MaxShares == 2
MaxSize == 2
MaxClock == 3

\* -------------------------------------------------------------- the domain
Users == {"u1", "u2"}
Slots == {1, 2}
FileIdInputs == 1..(MaxFiles + 1)
Sizes == 1..MaxSize

\* table profiles: id -> email (rows are created by /register, never removed)
profiles == [u \in Users |-> IF u = "u1" THEN "e1" ELSE "e2"]

NoParent == 0

Idle == [op |-> "idle"]

InFlight(s) == reqs[s].op # "idle"

Running(s) == InFlight(s) /\ reqs[s].pc # "done"

\* A slot takes a new request once the one before it has been answered
Free(s) == ~Running(s)

\* What the stores hold as a request arrives
Snapshot ==
    [files |-> files, file_versions |-> file_versions, shares |-> shares,
     user_quotas |-> user_quotas, blobs |-> blobs, clock |-> clock]

\* A request arrives in slot s: the slot keeps the events of its own request
Accept(s, request) ==
    /\ reqs' = [reqs EXCEPT ![s] = request]
    /\ events' = {e \in events : e.by # s}

\* The events the request in slot s emitted
EmittedBy(s) == {e \in events : e.by = s}

NewRequest(op, userId, fileId, body, pc) ==
    [op |-> op, userId |-> userId, fileId |-> fileId, body |-> body,
     pc |-> pc, loc |-> [none |-> TRUE], status |-> 0, code |-> "",
     emitted |-> 0, pre |-> Snapshot]

\* res.status(n).json(...): the handler's response
Respond(s, status, code) ==
    [reqs EXCEPT ![s].pc = "done", ![s].status = status, ![s].code = code]

\* io.to(`user:${userId}`).emit(type, ...) followed by the 200 response
RespondEmit(s, type, id) ==
    /\ events' = events \cup {[by |-> s, room |-> reqs[s].userId,
                                type |-> type, id |-> id]}
    /\ reqs' = [reqs EXCEPT ![s].pc = "done", ![s].status = 200,
                            ![s].emitted = @ + 1]

Goto(s, pc, loc) == [reqs EXCEPT ![s].pc = pc, ![s].loc = loc]

\* --------------------------------------------------------------- the store
Extend(table, id, row) ==
    [k \in DOMAIN table \cup {id} |-> IF k = id THEN row ELSE table[k]]

\* .delete(): the table without the rows of the given ids
DeleteRows(table, ids) == [k \in DOMAIN table \ ids |-> table[k]]

\* .from("files").select().eq("id", fileId).eq("user_id", userId).single()
OwnedFileBug(userId, fileId) == fileId \in DOMAIN files

OwnedFile(userId, fileId) ==
    fileId \in DOMAIN files /\ files[fileId].user_id = userId

\* The rows of file_versions of one file
VersionsOf(fileId) ==
    {i \in 1..Len(file_versions) : file_versions[i].file_id = fileId}

SetMax(S) == CHOOSE x \in S : \A y \in S : y <= x

\* .order("version_number", {ascending: false}).limit(1).maybeSingle()
\* followed by (lastVersion?.version_number ?? 0) + 1
NextVersionNumberBug(fileId) ==
    IF VersionsOf(fileId) = {} THEN 1
    ELSE SetMax({file_versions[i].version_number : i \in VersionsOf(fileId)})

NextVersionNumber(fileId) ==
    IF VersionsOf(fileId) = {} THEN 1
    ELSE SetMax({file_versions[i].version_number : i \in VersionsOf(fileId)}) + 1

\* ---------------------------------------------------------- Auth Gate
\* The Authorization header of a request: whether it starts with "Bearer ",
\* whether jwt.verify accepts the token (signature and expiry), and the
\* userId of its payload ("" when the payload has none)
Tokens ==
    {[bearer |-> FALSE, valid |-> FALSE, userId |-> ""],
     [bearer |-> TRUE, valid |-> FALSE, userId |-> "u1"],
     [bearer |-> TRUE, valid |-> TRUE, userId |-> ""],
     [bearer |-> TRUE, valid |-> TRUE, userId |-> "u3"],
     [bearer |-> TRUE, valid |-> TRUE, userId |-> "u1"],
     [bearer |-> TRUE, valid |-> TRUE, userId |-> "u2"]}

\* What authMiddleware decides: a 401, or next() with req.userId set
authMiddlewareBug(token) ==
    IF ~token.bearer
    THEN [status |-> 401, code |-> "Access token required", userId |-> ""]
    ELSE IF ~token.valid
    THEN [status |-> 401, code |-> "Invalid or expired token", userId |-> ""]
    ELSE IF token.userId = ""
    THEN [status |-> 401, code |-> "Invalid token payload", userId |-> ""]
    ELSE [status |-> 0, code |-> "", userId |-> token.userId]

authMiddleware(token) ==
    IF ~token.bearer
    THEN [status |-> 401, code |-> "Access token required", userId |-> ""]
    ELSE IF ~token.valid
    THEN [status |-> 401, code |-> "Invalid or expired token", userId |-> ""]
    ELSE IF token.userId = ""
    THEN [status |-> 401, code |-> "Invalid token payload", userId |-> ""]
    ELSE IF token.userId \notin DOMAIN profiles
    THEN [status |-> 401, code |-> "User not found", userId |-> ""]
    ELSE [status |-> 0, code |-> "", userId |-> token.userId]

\* The first await of each handler
FirstPc(op) ==
    IF op = "upload" THEN "quota"
    ELSE IF op = "createFolder" THEN "insert"
    ELSE IF op = "download" THEN "perm"
    ELSE IF op = "revokePublic" THEN "delete"
    ELSE "check"

\* A request arrives at a route mounted with authMiddleware
StartAuthenticated(s, tokens, requests) ==
    /\ Free(s)
    /\ \E k \in tokens, q \in requests :
          Accept(s, Extend(NewRequest(q.op, "", q.fileId, q.body, "auth"),
                           "token", k))
    /\ UNCHANGED <<files, file_versions, shares, user_quotas, blobs,
                   nextFileId, nextShareId, nextPath, schema,
                   clock, nextToken, config>>

\* authMiddleware: respond 401, or set req.userId and call the handler
AuthGate(s) ==
    /\ Running(s) /\ reqs[s].pc = "auth"
    /\ LET a == authMiddleware(reqs[s].token)
       IN  reqs' = IF a.status = 401 THEN Respond(s, 401, a.code)
                   ELSE [reqs EXCEPT ![s].userId = a.userId,
                                     ![s].pc = FirstPc(reqs[s].op)]
    /\ UNCHANGED <<files, file_versions, shares, user_quotas, blobs, events,
                   nextFileId, nextShareId, nextPath, schema,
                   clock, nextToken, config>>

\* ------------------------------------------------------------ Quota Ledger
DefaultStorageLimit == 5 * 1024
DefaultFileCountLimit == 10000

enforceQuotaOnUploadBug(userId, newFileSize) ==
    LET hasRow == userId \in DOMAIN user_quotas
        storageLimit == IF hasRow THEN user_quotas[userId].storage_limit
                        ELSE DefaultStorageLimit
        storageUsed == IF hasRow THEN user_quotas[userId].storage_used ELSE 0
        fileCount == IF hasRow THEN user_quotas[userId].file_count ELSE 0
        fileCountLimit == IF hasRow THEN user_quotas[userId].file_count_limit
                          ELSE DefaultFileCountLimit
    IN  IF storageUsed + newFileSize > storageLimit + 1
        THEN [allowed |-> FALSE, code |-> "STORAGE_LIMIT_EXCEEDED"]
        ELSE IF fileCount + 1 > fileCountLimit
        THEN [allowed |-> FALSE, code |-> "FILE_COUNT_LIMIT_EXCEEDED"]
        ELSE [allowed |-> TRUE, code |-> ""]

enforceQuotaOnUploadSwap(userId, newFileSize) ==
    LET hasRow == userId \in DOMAIN user_quotas
        storageLimit == IF hasRow THEN user_quotas[userId].storage_limit
                        ELSE DefaultStorageLimit
        storageUsed == IF hasRow THEN user_quotas[userId].storage_used ELSE 0
        fileCount == IF hasRow THEN user_quotas[userId].file_count ELSE 0
        fileCountLimit == IF hasRow THEN user_quotas[userId].file_count_limit
                          ELSE DefaultFileCountLimit
    IN  IF fileCount + 1 > fileCountLimit
        THEN [allowed |-> FALSE, code |-> "FILE_COUNT_LIMIT_EXCEEDED"]
        ELSE IF storageUsed + newFileSize > storageLimit
        THEN [allowed |-> FALSE, code |-> "STORAGE_LIMIT_EXCEEDED"]
        ELSE [allowed |-> TRUE, code |-> ""]

enforceQuotaOnUpload(userId, newFileSize) ==
    LET hasRow == userId \in DOMAIN user_quotas
        storageLimit == IF hasRow THEN user_quotas[userId].storage_limit
                        ELSE DefaultStorageLimit
        storageUsed == IF hasRow THEN user_quotas[userId].storage_used ELSE 0
        fileCount == IF hasRow THEN user_quotas[userId].file_count ELSE 0
        fileCountLimit == IF hasRow THEN user_quotas[userId].file_count_limit
                          ELSE DefaultFileCountLimit
    IN  IF storageUsed + newFileSize > storageLimit
        THEN [allowed |-> FALSE, code |-> "STORAGE_LIMIT_EXCEEDED"]
        ELSE IF fileCount + 1 > fileCountLimit
        THEN [allowed |-> FALSE, code |-> "FILE_COUNT_LIMIT_EXCEEDED"]
        ELSE [allowed |-> TRUE, code |-> ""]

\* -------------------------------------------------------- POST /upload
\* The row the insert of the upload handler creates (is_folder, is_deleted,
\* deleted_at and is_starred take the table's defaults).
NewFileRow(userId, name, size, path, parentId) ==
    [user_id |-> userId, name |-> name, size |-> size, path |-> path,
     parent_id |-> parentId, is_folder |-> FALSE, is_deleted |-> FALSE,
     deleted_at |-> "null", is_starred |-> FALSE]

\* multipart bodies: the field "file" (hasFile) with its size, and parentId
UploadBodies(sizes, parents) ==
    {[hasFile |-> TRUE, size |-> z, parentId |-> p] : z \in sizes, p \in parents}
    \cup {[hasFile |-> FALSE, size |-> 0, parentId |-> NoParent]}

StartUpload(s, users, bodies) ==
    /\ Free(s)
    /\ \E u \in users, b \in bodies :
          Accept(s, NewRequest("upload", u, 0, b, "quota"))
    /\ UNCHANGED <<files, file_versions, shares, user_quotas, blobs,
                   nextFileId, nextShareId, nextPath, schema,
                   clock, nextToken, config>>

\* if (!file) 400; quotaCheck = await enforceQuotaOnUpload(...); 403 when refused
UploadQuota(s) ==
    /\ Running(s) /\ reqs[s].op = "upload" /\ reqs[s].pc = "quota"
    /\ LET r == reqs[s]
           quotaCheck == enforceQuotaOnUpload(r.userId, r.body.size)
       IN  reqs' = IF ~r.body.hasFile THEN Respond(s, 400, "")
                   ELSE IF ~quotaCheck.allowed
                        THEN Respond(s, 403, quotaCheck.code)
                        ELSE Goto(s, "blob", [quotaChecked |-> TRUE])
    /\ UNCHANGED <<files, file_versions, shares, user_quotas, blobs, events,
                   nextFileId, nextShareId, nextPath, schema,
                   clock, nextToken, config>>

\* await supabase.storage.from("files").upload(...); if (uploadError) throw
UploadBlob(s) ==
    /\ Running(s) /\ reqs[s].op = "upload" /\ reqs[s].pc = "blob"
    /\ nextPath <= MaxPaths
    /\ \E ok \in BOOLEAN :
          IF ok
          THEN /\ blobs' = blobs \cup {nextPath}
               /\ nextPath' = nextPath + 1
               /\ reqs' = Goto(s, "insert",
                               [quotaChecked |-> reqs[s].loc.quotaChecked,
                                path |-> nextPath])
          ELSE /\ reqs' = Respond(s, 500, "")
               /\ UNCHANGED <<blobs, nextPath>>
    /\ UNCHANGED <<files, file_versions, shares, user_quotas, events,
                   nextFileId, nextShareId, schema,
                   clock, nextToken, config>>

\* await supabase.from("files").insert([...]); if (dbError) throw; emit; 200
UploadInsert(s) ==
    /\ Running(s) /\ reqs[s].op = "upload" /\ reqs[s].pc = "insert"
    /\ nextFileId <= MaxFiles
    /\ \E ok \in BOOLEAN :
          IF ok
          THEN /\ files' = Extend(files, nextFileId,
                                  NewFileRow(reqs[s].userId, "a",
                                             reqs[s].body.size, reqs[s].loc.path,
                                             reqs[s].body.parentId))
               /\ nextFileId' = nextFileId + 1
               /\ RespondEmit(s, "file:created", nextFileId)
          ELSE /\ reqs' = Respond(s, 500, "")
               /\ UNCHANGED <<files, nextFileId, events>>
    /\ UNCHANGED <<file_versions, shares, user_quotas, blobs,
                   nextShareId, nextPath, schema,
                   clock, nextToken, config>>

\* ------------------------------------------------------ POST /folders
\* The row the insert of the folder handler creates
NewFolderRow(userId, name, path, parentId) ==
    [user_id |-> userId, name |-> name, size |-> 0, path |-> path,
     parent_id |-> parentId, is_folder |-> TRUE, is_deleted |-> FALSE,
     deleted_at |-> "null", is_starred |-> FALSE]

\* Request bodies: name (absent, blank or a name) and parentId (absent is null)
FolderBodies(parents) ==
    {[name |-> n, parentId |-> p] : n \in {"undefined", " ", "d"}, p \in parents}

StartCreateFolder(s, users, bodies) ==
    /\ Free(s)
    /\ \E u \in users, b \in bodies :
          Accept(s, NewRequest("createFolder", u, 0, b, "insert"))
    /\ UNCHANGED <<files, file_versions, shares, user_quotas, blobs,
                   nextFileId, nextShareId, nextPath, schema,
                   clock, nextToken, config>>

\* if (!name || !name.trim()) 400; insert the folder row; if (error) throw;
\* emit folder:created; 200.  The folder's path names no blob.
FdInsert(s) ==
    /\ Running(s) /\ reqs[s].op = "createFolder" /\ reqs[s].pc = "insert"
    /\ nextFileId <= MaxFiles /\ nextPath <= MaxPaths
    /\ IF reqs[s].body.name \in {"undefined", " "}
       THEN /\ reqs' = Respond(s, 400, "Folder name is required")
            /\ UNCHANGED <<files, nextFileId, nextPath, events>>
       ELSE \E ok \in BOOLEAN :
              IF ok
              THEN /\ files' = Extend(files, nextFileId,
                                      NewFolderRow(reqs[s].userId,
                                                   reqs[s].body.name, nextPath,
                                                   reqs[s].body.parentId))
                   /\ nextFileId' = nextFileId + 1
                   /\ nextPath' = nextPath + 1
                   /\ RespondEmit(s, "folder:created", nextFileId)
              ELSE /\ reqs' = Respond(s, 500, "")
                   /\ UNCHANGED <<files, nextFileId, nextPath, events>>
    /\ UNCHANGED <<file_versions, shares, user_quotas, blobs,
                   nextShareId, schema, clock, nextToken, config>>

\* ------------------------------------------------- POST /:id/versions
\* multipart bodies: the field "file" (hasFile) with its size
VersionBodies(sizes) ==
    {[hasFile |-> TRUE, size |-> z] : z \in sizes}
    \cup {[hasFile |-> FALSE, size |-> 0]}

StartCreateVersion(s, users, fileIds, bodies) ==
    /\ Free(s)
    /\ \E u \in users, f \in fileIds, b \in bodies :
          Accept(s, NewRequest("createVersion", u, f, b, "check"))
    /\ UNCHANGED <<files, file_versions, shares, user_quotas, blobs,
                   nextFileId, nextShareId, nextPath, schema,
                   clock, nextToken, config>>

\* if (!fileBlob) 400; verify file ownership and not deleted, else 404
CvCheck(s) ==
    /\ Running(s) /\ reqs[s].op = "createVersion" /\ reqs[s].pc = "check"
    /\ LET r == reqs[s]
       IN  reqs' = IF ~r.body.hasFile THEN Respond(s, 400, "")
                   ELSE IF ~(OwnedFile(r.userId, r.fileId)
                             /\ ~files[r.fileId].is_deleted)
                        THEN Respond(s, 404, "File not found")
                        ELSE Goto(s, "blob", [quotaChecked |-> FALSE])
    /\ UNCHANGED <<files, file_versions, shares, user_quotas, blobs, events,
                   nextFileId, nextShareId, nextPath, schema,
                   clock, nextToken, config>>

\* await supabase.storage.from("files").upload(versionPath, ...); if (upErr) throw
CvBlob(s) ==
    /\ Running(s) /\ reqs[s].op = "createVersion" /\ reqs[s].pc = "blob"
    /\ nextPath <= MaxPaths
    /\ \E ok \in BOOLEAN :
          IF ok
          THEN /\ blobs' = blobs \cup {nextPath}
               /\ nextPath' = nextPath + 1
               /\ reqs' = Goto(s, "readMax",
                               [quotaChecked |-> reqs[s].loc.quotaChecked,
                                path |-> nextPath])
          ELSE /\ reqs' = Respond(s, 500, "")
               /\ UNCHANGED <<blobs, nextPath>>
    /\ UNCHANGED <<files, file_versions, shares, user_quotas, events,
                   nextFileId, nextShareId, schema,
                   clock, nextToken, config>>

\* Determine next version number (lvErr is not looked at)
CvReadMax(s) ==
    /\ Running(s) /\ reqs[s].op = "createVersion" /\ reqs[s].pc = "readMax"
    /\ reqs' = Goto(s, "insert",
                    [quotaChecked |-> reqs[s].loc.quotaChecked,
                     path |-> reqs[s].loc.path,
                     nextVersion |-> NextVersionNumber(reqs[s].fileId)])
    /\ UNCHANGED <<files, file_versions, shares, user_quotas, blobs, events,
                   nextFileId, nextShareId, nextPath, schema,
                   clock, nextToken, config>>

\* The insert breaks a unique constraint on (file_id, version_number)
VersionConflict(fileId, n) ==
    /\ schema.uniqueVersion
    /\ \E i \in VersionsOf(fileId) : file_versions[i].version_number = n

NewVersionRow(fileId, n, size, path, changeType, userId) ==
    [file_id |-> fileId, version_number |-> n, size |-> size, path |-> path,
     change_type |-> changeType, created_by |-> userId]

\* if (verErr) throw verErr: the handler leaves for its catch block (500) when
\* the insert returned an error, and goes on otherwise
AfterInsertBug(err) == "continue"

AfterInsert(err) == IF err THEN "throw" ELSE "continue"

\* Insert version record; if (verErr) throw
CvInsert(s) ==
    /\ Running(s) /\ reqs[s].op = "createVersion" /\ reqs[s].pc = "insert"
    /\ Len(file_versions) < MaxVersions
    /\ \E ok \in BOOLEAN :
          LET verErr == ~ok \/ VersionConflict(reqs[s].fileId,
                                               reqs[s].loc.nextVersion)
          IN  /\ file_versions' =
                    IF verErr THEN file_versions
                    ELSE Append(file_versions,
                                NewVersionRow(reqs[s].fileId,
                                              reqs[s].loc.nextVersion,
                                              reqs[s].body.size, reqs[s].loc.path,
                                              "update", reqs[s].userId))
              /\ reqs' = IF AfterInsert(verErr) = "throw"
                         THEN Respond(s, 500, "")
                         ELSE Goto(s, "update", reqs[s].loc)
    /\ UNCHANGED <<files, shares, user_quotas, blobs, events,
                   nextFileId, nextShareId, nextPath, schema,
                   clock, nextToken, config>>

\* .from("files").update(fields).eq("id", fileId): no row, no change, no error
UpdateFile(fileId, fields) ==
    IF fileId \in DOMAIN files
    THEN [files EXCEPT ![fileId] =
            [k \in DOMAIN files[fileId] |->
                IF k \in DOMAIN fields THEN fields[k] ELSE files[fileId][k]]]
    ELSE files

\* The fields of the main file row that take the new version's values
CvUpdateFields(r) == [size |-> r.body.size, path |-> r.loc.path]

\* update main file metadata to reflect latest version; if (updErr) throw; emit; 200
CvUpdate(s) ==
    /\ Running(s) /\ reqs[s].op = "createVersion" /\ reqs[s].pc = "update"
    /\ \E ok \in BOOLEAN :
          IF ok
          THEN /\ files' = UpdateFile(reqs[s].fileId, CvUpdateFields(reqs[s]))
               /\ RespondEmit(s, "file:updated", reqs[s].fileId)
          ELSE /\ reqs' = Respond(s, 500, "")
               /\ UNCHANGED <<files, events>>
    /\ UNCHANGED <<file_versions, shares, user_quotas, blobs,
                   nextFileId, nextShareId, nextPath, schema,
                   clock, nextToken, config>>

\* ------------------------- POST /:id/versions/:versionNumber/restore
\* :versionNumber after parseInt: a number, or NaN
RestoreVersionBodies ==
    {[nan |-> FALSE, versionNumber |-> k] : k \in 1..(MaxVersions + 1)}
    \cup {[nan |-> TRUE, versionNumber |-> 0]}

StartRestoreVersion(s, users, fileIds, bodies) ==
    /\ Free(s)
    /\ \E u \in users, f \in fileIds, b \in bodies :
          Accept(s, NewRequest("restoreVersion", u, f, b, "check"))
    /\ UNCHANGED <<files, file_versions, shares, user_quotas, blobs,
                   nextFileId, nextShareId, nextPath, schema,
                   clock, nextToken, config>>

\* if (Number.isNaN(versionNumber)) 400; verify ownership, else 404
RvCheck(s) ==
    /\ Running(s) /\ reqs[s].op = "restoreVersion" /\ reqs[s].pc = "check"
    /\ LET r == reqs[s]
       IN  reqs' = IF r.body.nan THEN Respond(s, 400, "")
                   ELSE IF ~OwnedFile(r.userId, r.fileId)
                        THEN Respond(s, 404, "File not found")
                        ELSE Goto(s, "fetch", [none |-> TRUE])
    /\ UNCHANGED <<files, file_versions, shares, user_quotas, blobs, events,
                   nextFileId, nextShareId, nextPath, schema,
                   clock, nextToken, config>>

\* .eq("file_id", fileId).eq("version_number", versionNumber): the rows
VersionRows(fileId, k) ==
    {i \in VersionsOf(fileId) : file_versions[i].version_number = k}

\* Fetch version with .single(): anything but exactly one row is an error, 404
RvFetch(s) ==
    /\ Running(s) /\ reqs[s].op = "restoreVersion" /\ reqs[s].pc = "fetch"
    /\ LET r == reqs[s]
           rows == VersionRows(r.fileId, r.body.versionNumber)
       IN  reqs' = IF Cardinality(rows) # 1
                   THEN Respond(s, 404, "Version not found")
                   ELSE LET v == file_versions[CHOOSE i \in rows : TRUE]
                        IN  Goto(s, "update",
                                 [version |-> [size |-> v.size, path |-> v.path]])
    /\ UNCHANGED <<files, file_versions, shares, user_quotas, blobs, events,
                   nextFileId, nextShareId, nextPath, schema,
                   clock, nextToken, config>>

\* Apply restore to main file; if (updErr) throw
RvUpdate(s) ==
    /\ Running(s) /\ reqs[s].op = "restoreVersion" /\ reqs[s].pc = "update"
    /\ \E ok \in BOOLEAN :
          IF ok
          THEN /\ files' = UpdateFile(reqs[s].fileId,
                                      [path |-> reqs[s].loc.version.path,
                                       size |-> reqs[s].loc.version.size])
               /\ reqs' = Goto(s, "readMax", reqs[s].loc)
          ELSE /\ reqs' = Respond(s, 500, "")
               /\ UNCHANGED files
    /\ UNCHANGED <<file_versions, shares, user_quotas, blobs, events,
                   nextFileId, nextShareId, nextPath, schema,
                   clock, nextToken, config>>

\* Record restore as a new version entry: read the last version number
RvReadMax(s) ==
    /\ Running(s) /\ reqs[s].op = "restoreVersion" /\ reqs[s].pc = "readMax"
    /\ reqs' = Goto(s, "insert",
                    [version |-> reqs[s].loc.version,
                     nextVersion |-> NextVersionNumber(reqs[s].fileId)])
    /\ UNCHANGED <<files, file_versions, shares, user_quotas, blobs, events,
                   nextFileId, nextShareId, nextPath, schema,
                   clock, nextToken, config>>

\* The version row a restore records
RestoreRowBug(r) ==
    NewVersionRow(r.fileId, r.loc.nextVersion, r.loc.version.size,
                  r.loc.version.path, "update", r.userId)

RestoreRow(r) ==
    NewVersionRow(r.fileId, r.loc.nextVersion, r.loc.version.size,
                  r.loc.version.path, "restore", r.userId)

\* insert the restore entry; if (recErr) throw; emit; 200
RvInsert(s) ==
    /\ Running(s) /\ reqs[s].op = "restoreVersion" /\ reqs[s].pc = "insert"
    /\ Len(file_versions) < MaxVersions
    /\ \E ok \in BOOLEAN :
          LET recErr == ~ok \/ VersionConflict(reqs[s].fileId,
                                               reqs[s].loc.nextVersion)
          IN  /\ file_versions' = IF recErr THEN file_versions
                                  ELSE Append(file_versions, RestoreRow(reqs[s]))
              /\ IF AfterInsert(recErr) = "throw"
                 THEN reqs' = Respond(s, 500, "") /\ UNCHANGED events
                 ELSE RespondEmit(s, "file:updated", reqs[s].fileId)
    /\ UNCHANGED <<files, shares, user_quotas, blobs,
                   nextFileId, nextShareId, nextPath, schema,
                   clock, nextToken, config>>

\* ------------------------------------------------------ DELETE /:id
StartSoftDelete(s, users, fileIds) ==
    /\ Free(s)
    /\ \E u \in users, f \in fileIds :
          Accept(s, NewRequest("softDelete", u, f, [none |-> TRUE], "check"))
    /\ UNCHANGED <<files, file_versions, shares, user_quotas, blobs,
                   nextFileId, nextShareId, nextPath, schema,
                   clock, nextToken, config>>

\* The status the soft delete answers with after its ownership read (0: go on)
SoftDeleteCheckBug(userId, fileId) ==
    IF ~OwnedFile(userId, fileId) THEN 404 ELSE 0

SoftDeleteCheck(userId, fileId) ==
    IF ~OwnedFile(userId, fileId) THEN 404
    ELSE IF files[fileId].is_deleted = TRUE THEN 409
    ELSE 0

\* Verify ownership, else 404; already deleted, 409
SdCheck(s) ==
    /\ Running(s) /\ reqs[s].op = "softDelete" /\ reqs[s].pc = "check"
    /\ LET st == SoftDeleteCheck(reqs[s].userId, reqs[s].fileId)
       IN  reqs' = IF st = 404 THEN Respond(s, 404, "File not found")
                   ELSE IF st = 409 THEN Respond(s, 409, "File already in trash")
                   ELSE Goto(s, "update", [none |-> TRUE])
    /\ UNCHANGED <<files, file_versions, shares, user_quotas, blobs, events,
                   nextFileId, nextShareId, nextPath, schema,
                   clock, nextToken, config>>

\* update({is_deleted: true, deleted_at: now}); if (dbError) throw; emit; 200
SdUpdate(s) ==
    /\ Running(s) /\ reqs[s].op = "softDelete" /\ reqs[s].pc = "update"
    /\ \E ok \in BOOLEAN :
          IF ok
          THEN /\ files' = UpdateFile(reqs[s].fileId,
                                      [is_deleted |-> TRUE, deleted_at |-> "ts"])
               /\ RespondEmit(s, "file:deleted", reqs[s].fileId)
          ELSE /\ reqs' = Respond(s, 500, "")
               /\ UNCHANGED <<files, events>>
    /\ UNCHANGED <<file_versions, shares, user_quotas, blobs,
                   nextFileId, nextShareId, nextPath, schema,
                   clock, nextToken, config>>

\* ------------------------------------------------- POST /:id/restore
StartRestore(s, users, fileIds) ==
    /\ Free(s)
    /\ \E u \in users, f \in fileIds :
          Accept(s, NewRequest("restore", u, f, [none |-> TRUE], "check"))
    /\ UNCHANGED <<files, file_versions, shares, user_quotas, blobs,
                   nextFileId, nextShareId, nextPath, schema,
                   clock, nextToken, config>>

\* Verify ownership, else 404; not in trash, 409
RsCheck(s) ==
    /\ Running(s) /\ reqs[s].op = "restore" /\ reqs[s].pc = "check"
    /\ LET r == reqs[s]
       IN  reqs' = IF ~OwnedFile(r.userId, r.fileId)
                   THEN Respond(s, 404, "File not found")
                   ELSE IF files[r.fileId].is_deleted # TRUE
                        THEN Respond(s, 409, "File is not in trash")
                        ELSE Goto(s, "update", [none |-> TRUE])
    /\ UNCHANGED <<files, file_versions, shares, user_quotas, blobs, events,
                   nextFileId, nextShareId, nextPath, schema,
                   clock, nextToken, config>>

\* .update({ is_deleted: false, deleted_at: null })
RestoreFieldsBug == [is_deleted |-> FALSE]

RestoreFields == [is_deleted |-> FALSE, deleted_at |-> "null"]

\* update({is_deleted: false, deleted_at: null}); if (dbError) throw; emit; 200
RsUpdate(s) ==
    /\ Running(s) /\ reqs[s].op = "restore" /\ reqs[s].pc = "update"
    /\ \E ok \in BOOLEAN :
          IF ok
          THEN /\ files' = UpdateFile(reqs[s].fileId, RestoreFields)
               /\ RespondEmit(s, "file:restored", reqs[s].fileId)
          ELSE /\ reqs' = Respond(s, 500, "")
               /\ UNCHANGED <<files, events>>
    /\ UNCHANGED <<file_versions, shares, user_quotas, blobs,
                   nextFileId, nextShareId, nextPath, schema,
                   clock, nextToken, config>>

\* ----------------------------------------------- DELETE /:id/permanent
StartPermanentDelete(s, users, fileIds) ==
    /\ Free(s)
    /\ \E u \in users, f \in fileIds :
          Accept(s, NewRequest("permanentDelete", u, f, [none |-> TRUE], "check"))
    /\ UNCHANGED <<files, file_versions, shares, user_quotas, blobs,
                   nextFileId, nextShareId, nextPath, schema,
                   clock, nextToken, config>>

\* Fetch file (owned by the caller), else 404
PdCheck(s) ==
    /\ Running(s) /\ reqs[s].op = "permanentDelete" /\ reqs[s].pc = "check"
    /\ reqs' = IF ~OwnedFile(reqs[s].userId, reqs[s].fileId)
               THEN Respond(s, 404, "File not found")
               ELSE Goto(s, "remove", [path |-> files[reqs[s].fileId].path])
    /\ UNCHANGED <<files, file_versions, shares, user_quotas, blobs, events,
                   nextFileId, nextShareId, nextPath, schema,
                   clock, nextToken, config>>

\* if (storageError) console.error(...): the error is logged, not thrown
AfterRemoveBug(storageError) == IF storageError THEN "throw" ELSE "continue"

AfterRemove(storageError) == "continue"

\* Remove from storage: a storageError is logged and the handler goes on
PdRemove(s) ==
    /\ Running(s) /\ reqs[s].op = "permanentDelete" /\ reqs[s].pc = "remove"
    /\ \E ok \in BOOLEAN :
          /\ blobs' = IF ok THEN blobs \ {reqs[s].loc.path} ELSE blobs
          /\ reqs' = IF AfterRemove(~ok) = "throw"
                     THEN Respond(s, 500, "")
                     ELSE Goto(s, "delete", [path |-> reqs[s].loc.path,
                                             storageError |-> ~ok])
    /\ UNCHANGED <<files, file_versions, shares, user_quotas, events,
                   nextFileId, nextShareId, nextPath, schema,
                   clock, nextToken, config>>

\* Delete DB row; if (dbError) throw; emit file:deleted; 200
PdDelete(s) ==
    /\ Running(s) /\ reqs[s].op = "permanentDelete" /\ reqs[s].pc = "delete"
    /\ \E ok \in BOOLEAN :
          IF ok
          THEN /\ files' = DeleteRows(files, {reqs[s].fileId})
               /\ RespondEmit(s, "file:deleted", reqs[s].fileId)
          ELSE /\ reqs' = Respond(s, 500, "")
               /\ UNCHANGED <<files, events>>
    /\ UNCHANGED <<file_versions, shares, user_quotas, blobs,
                   nextFileId, nextShareId, nextPath, schema,
                   clock, nextToken, config>>

\* ------------------------------------------------------- PATCH /:id
\* Request bodies: a field that is absent is "undefined" (hasParent for parentId)
PatchBodies ==
    {[name |-> n, hasParent |-> hp, parentId |-> NoParent, starred |-> st] :
        n \in {"undefined", " ", "b"}, hp \in BOOLEAN,
        st \in {"undefined", "true"}}

\* The update object the handler builds from the body
PatchUpdate(body) ==
    LET nameSet == body.name # "undefined" /\ body.name # " "
        starSet == body.starred # "undefined"
        keys == (IF nameSet THEN {"name"} ELSE {})
                \cup (IF body.hasParent THEN {"parent_id"} ELSE {})
                \cup (IF starSet THEN {"is_starred"} ELSE {})
    IN  [k \in keys |->
            IF k = "name" THEN body.name
            ELSE IF k = "parent_id" THEN body.parentId
            ELSE body.starred = "true"]

\* Request bodies that move a file: parentId alone
MoveBodies(parents) ==
    {[name |-> "undefined", hasParent |-> TRUE, parentId |-> p,
      starred |-> "undefined"] : p \in parents}

StartPatch(s, users, fileIds, bodies) ==
    /\ Free(s)
    /\ \E u \in users, f \in fileIds, b \in bodies :
          Accept(s, NewRequest("patch", u, f, b, "check"))
    /\ UNCHANGED <<files, file_versions, shares, user_quotas, blobs,
                   nextFileId, nextShareId, nextPath, schema,
                   clock, nextToken, config>>

\* The status PATCH answers with after its ownership read (0: go on)
PatchCheckBug(userId, fileId, body) ==
    IF fileId \notin DOMAIN files THEN 404
    ELSE IF DOMAIN PatchUpdate(body) = {} THEN 400
    ELSE 0

PatchCheck(userId, fileId, body) ==
    IF ~OwnedFile(userId, fileId) THEN 404
    ELSE IF DOMAIN PatchUpdate(body) = {} THEN 400
    ELSE 0

\* Verify ownership, else 404; no changes provided, 400
PtCheck(s) ==
    /\ Running(s) /\ reqs[s].op = "patch" /\ reqs[s].pc = "check"
    /\ LET st == PatchCheck(reqs[s].userId, reqs[s].fileId, reqs[s].body)
       IN  reqs' = IF st = 404 THEN Respond(s, 404, "File not found")
                   ELSE IF st = 400 THEN Respond(s, 400, "No changes provided")
                   ELSE Goto(s, "update", [update |-> PatchUpdate(reqs[s].body)])
    /\ UNCHANGED <<files, file_versions, shares, user_quotas, blobs, events,
                   nextFileId, nextShareId, nextPath, schema,
                   clock, nextToken, config>>

\* update(update).eq("id", fileId).select().single(); if (error) throw; emit; 200
PtUpdate(s) ==
    /\ Running(s) /\ reqs[s].op = "patch" /\ reqs[s].pc = "update"
    /\ \E ok \in BOOLEAN :
          IF ok /\ reqs[s].fileId \in DOMAIN files
          THEN /\ files' = UpdateFile(reqs[s].fileId, reqs[s].loc.update)
               /\ RespondEmit(s, "file:updated", reqs[s].fileId)
          ELSE /\ reqs' = Respond(s, 500, "")
               /\ UNCHANGED <<files, events>>
    /\ UNCHANGED <<file_versions, shares, user_quotas, blobs,
                   nextFileId, nextShareId, nextPath, schema,
                   clock, nextToken, config>>

\* ------------------------------------------------- Permission Resolver
isOwner(userId, fileId) == OwnedFile(userId, fileId)

getCurrentUserEmail(userId) == profiles[userId]

\* .from("shares").eq("file_id", fileId).eq("shared_with_email", email)
ShareRows(fileId, email) ==
    {i \in DOMAIN shares :
        shares[i].file_id = fileId /\ shares[i].shared_with_email = email}

hasFilePermissionBug(userId, fileId, needed) ==
    IF isOwner(userId, fileId) THEN [allowed |-> TRUE, level |-> "owner"]
    ELSE IF needed = "owner" THEN [allowed |-> FALSE, level |-> "null"]
    ELSE LET rows == ShareRows(fileId, getCurrentUserEmail(userId))
         IN  IF Cardinality(rows) # 1 THEN [allowed |-> FALSE, level |-> "null"]
             ELSE LET perm == shares[CHOOSE i \in rows : TRUE].permissions
                      level == IF perm = "edit" THEN "edit" ELSE "view"
                  IN  IF needed = "view" THEN [allowed |-> TRUE, level |-> level]
                      ELSE IF needed = "edit"
                           THEN [allowed |-> level = "edit", level |-> level]
                           ELSE [allowed |-> FALSE, level |-> "null"]

\* maybeSingle(): no row is null, several rows are an error; both deny
hasFilePermission(userId, fileId, needed) ==
    IF isOwner(userId, fileId) THEN [allowed |-> TRUE, level |-> "owner"]
    ELSE IF needed = "owner" THEN [allowed |-> FALSE, level |-> "null"]
    ELSE LET rows == ShareRows(fileId, getCurrentUserEmail(userId))
         IN  IF Cardinality(rows) # 1 THEN [allowed |-> FALSE, level |-> "null"]
             ELSE LET perm == shares[CHOOSE i \in rows : TRUE].permissions
                      level == IF perm = "view" THEN "view" ELSE "edit"
                  IN  IF needed = "view" THEN [allowed |-> TRUE, level |-> level]
                      ELSE IF needed = "edit"
                           THEN [allowed |-> level = "edit", level |-> level]
                           ELSE [allowed |-> FALSE, level |-> "null"]

\* ----------------------------------------------- GET /:id/download
StartDownload(s, users, fileIds) ==
    /\ Free(s)
    /\ \E u \in users, f \in fileIds :
          Accept(s, NewRequest("download", u, f, [none |-> TRUE], "perm"))
    /\ UNCHANGED <<files, file_versions, shares, user_quotas, blobs,
                   nextFileId, nextShareId, nextPath, schema,
                   clock, nextToken, config>>

\* perm = await hasFilePermission(userId, fileId, "view"); 403 when denied
DlPerm(s) ==
    /\ Running(s) /\ reqs[s].op = "download" /\ reqs[s].pc = "perm"
    /\ LET perm == hasFilePermission(reqs[s].userId, reqs[s].fileId, "view")
       IN  reqs' = IF ~perm.allowed THEN Respond(s, 403, "Access denied")
                   ELSE Goto(s, "fetch", [perm |-> perm])
    /\ UNCHANGED <<files, file_versions, shares, user_quotas, blobs, events,
                   nextFileId, nextShareId, nextPath, schema,
                   clock, nextToken, config>>

\* select the file with is_deleted false, else 404
DlFetch(s) ==
    /\ Running(s) /\ reqs[s].op = "download" /\ reqs[s].pc = "fetch"
    /\ LET f == reqs[s].fileId
       IN  reqs' = IF ~(f \in DOMAIN files /\ files[f].is_deleted = FALSE)
                   THEN Respond(s, 404, "File not found")
                   ELSE Goto(s, "sign", [perm |-> reqs[s].loc.perm,
                                         path |-> files[f].path])
    /\ UNCHANGED <<files, file_versions, shares, user_quotas, blobs, events,
                   nextFileId, nextShareId, nextPath, schema,
                   clock, nextToken, config>>

\* createSignedUrl(file.path, 3600): an error (no such object) throws, 500
DlSign(s) ==
    /\ Running(s) /\ reqs[s].op = "download" /\ reqs[s].pc = "sign"
    /\ reqs' = IF reqs[s].loc.path \in blobs
               THEN [reqs EXCEPT ![s].pc = "done", ![s].status = 200,
                                 ![s].code = "downloadUrl"]
               ELSE Respond(s, 500, "")
    /\ UNCHANGED <<files, file_versions, shares, user_quotas, blobs, events,
                   nextFileId, nextShareId, nextPath, schema,
                   clock, nextToken, config>>

\* ------------------------------------------------------------ GET /
\* Query strings: deleted=true or absent (the other filters only narrow the
\* result further)
ListQueries == {[includeDeleted |-> d] : d \in BOOLEAN}

StartListFiles(s, users, queries) ==
    /\ Free(s)
    /\ \E u \in users, q \in queries :
          Accept(s, NewRequest("listFiles", u, 0, q, "query"))
    /\ UNCHANGED <<files, file_versions, shares, user_quotas, blobs,
                   nextFileId, nextShareId, nextPath, schema,
                   clock, nextToken, config>>

\* .from("files").select("*").eq("user_id", userId).eq("is_deleted", includeDeleted)
ListedFiles(userId, includeDeleted) ==
    {i \in DOMAIN files :
        files[i].user_id = userId /\ files[i].is_deleted = includeDeleted}

\* await select.range(from, to); res.json({ files, ... })
LsQuery(s) ==
    /\ Running(s) /\ reqs[s].op = "listFiles" /\ reqs[s].pc = "query"
    /\ reqs' = [reqs EXCEPT
                  ![s].pc = "done", ![s].status = 200,
                  ![s].loc = [files |-> ListedFiles(reqs[s].userId,
                                                    reqs[s].body.includeDeleted)]]
    /\ UNCHANGED <<files, file_versions, shares, user_quotas, blobs, events,
                   nextFileId, nextShareId, nextPath, schema,
                   clock, nextToken, config>>

\* ------------------------------------------------- GET /:id/versions
StartListVersions(s, users, fileIds) ==
    /\ Free(s)
    /\ \E u \in users, f \in fileIds :
          Accept(s, NewRequest("listVersions", u, f, [none |-> TRUE], "check"))
    /\ UNCHANGED <<files, file_versions, shares, user_quotas, blobs,
                   nextFileId, nextShareId, nextPath, schema,
                   clock, nextToken, config>>

\* Verify ownership, else 404
LvCheck(s) ==
    /\ Running(s) /\ reqs[s].op = "listVersions" /\ reqs[s].pc = "check"
    /\ reqs' = IF ~OwnedFile(reqs[s].userId, reqs[s].fileId)
               THEN Respond(s, 404, "File not found")
               ELSE Goto(s, "list", [none |-> TRUE])
    /\ UNCHANGED <<files, file_versions, shares, user_quotas, blobs, events,
                   nextFileId, nextShareId, nextPath, schema,
                   clock, nextToken, config>>

\* .from("file_versions").select(...).eq("file_id", fileId); res.json({ versions })
LvList(s) ==
    /\ Running(s) /\ reqs[s].op = "listVersions" /\ reqs[s].pc = "list"
    /\ reqs' = [reqs EXCEPT
                  ![s].pc = "done", ![s].status = 200,
                  ![s].loc = [versions |-> VersionsOf(reqs[s].fileId)]]
    /\ UNCHANGED <<files, file_versions, shares, user_quotas, blobs, events,
                   nextFileId, nextShareId, nextPath, schema,
                   clock, nextToken, config>>

\* --------------------------------------------- POST /:fileId/share
\* permissions "undefined": the field is absent and defaults to "view"
PermissionInputs == {"undefined", "view", "edit", "admin", "owner"}

\* const { email, permissions = "view" } = req.body
ShareBodies(emails) ==
    {[email |-> e, permissions |-> IF p = "undefined" THEN "view" ELSE p] :
        e \in emails, p \in PermissionInputs}

StartShare(s, users, fileIds, bodies) ==
    /\ Free(s)
    /\ \E u \in users, f \in fileIds, b \in bodies :
          Accept(s, NewRequest("share", u, f, b, "check"))
    /\ UNCHANGED <<files, file_versions, shares, user_quotas, blobs,
                   nextFileId, nextShareId, nextPath, schema,
                   clock, nextToken, config>>

\* email required and permissions valid, else 400; verify ownership, else 404
ShCheck(s) ==
    /\ Running(s) /\ reqs[s].op = "share" /\ reqs[s].pc = "check"
    /\ LET r == reqs[s]
       IN  reqs' = IF r.body.email = "" THEN Respond(s, 400, "Email is required")
                   ELSE IF r.body.permissions \notin {"view", "edit", "admin"}
                        THEN Respond(s, 400, "Invalid permissions")
                        ELSE IF ~OwnedFile(r.userId, r.fileId)
                             THEN Respond(s, 404, "File not found")
                             ELSE Goto(s, "target", [none |-> TRUE])
    /\ UNCHANGED <<files, file_versions, shares, user_quotas, blobs, events,
                   nextFileId, nextShareId, nextPath, schema,
                   clock, nextToken, config>>

\* Check if target user exists in profiles, else 404
ShTarget(s) ==
    /\ Running(s) /\ reqs[s].op = "share" /\ reqs[s].pc = "target"
    /\ reqs' = IF ~(\E u \in DOMAIN profiles : profiles[u] = reqs[s].body.email)
               THEN Respond(s, 404, "User not found")
               ELSE Goto(s, "existing", [none |-> TRUE])
    /\ UNCHANGED <<files, file_versions, shares, user_quotas, blobs, events,
                   nextFileId, nextShareId, nextPath, schema,
                   clock, nextToken, config>>

\* existingShare: maybeSingle() gives the row only when exactly one matches
ExistingShareBug(fileId, email) ==
    \E i \in DOMAIN shares :
        shares[i].file_id = fileId /\ shares[i].owner_id = email

ExistingShare(fileId, email) == Cardinality(ShareRows(fileId, email)) = 1

\* Check if already shared, 409
ShExisting(s) ==
    /\ Running(s) /\ reqs[s].op = "share" /\ reqs[s].pc = "existing"
    /\ reqs' = IF ExistingShare(reqs[s].fileId, reqs[s].body.email)
               THEN Respond(s, 409, "File already shared with this user")
               ELSE Goto(s, "insert", [none |-> TRUE])
    /\ UNCHANGED <<files, file_versions, shares, user_quotas, blobs, events,
                   nextFileId, nextShareId, nextPath, schema,
                   clock, nextToken, config>>

\* The insert breaks a unique constraint on (file_id, shared_with_email)
ShareConflict(fileId, email) ==
    schema.uniqueShare /\ ShareRows(fileId, email) # {}

\* public_token and expires_at of a row that has none (null)
NoToken == 0
NoExpiry == 0

\* share_type, public_token, expires_at and created_at take the table's defaults
NewShareRow(fileId, userId, email, permissions) ==
    [file_id |-> fileId, owner_id |-> userId, shared_with_email |-> email,
     permissions |-> permissions, share_type |-> "private",
     public_token |-> NoToken, expires_at |-> NoExpiry, created_at |-> clock]

\* Insert share record; if (shareError) throw; emit share:created; 200
ShInsert(s) ==
    /\ Running(s) /\ reqs[s].op = "share" /\ reqs[s].pc = "insert"
    /\ nextShareId <= MaxShares
    /\ \E ok \in BOOLEAN :
          IF ok /\ ~ShareConflict(reqs[s].fileId, reqs[s].body.email)
          THEN /\ shares' = Extend(shares, nextShareId,
                                   NewShareRow(reqs[s].fileId, reqs[s].userId,
                                               reqs[s].body.email,
                                               reqs[s].body.permissions))
               /\ nextShareId' = nextShareId + 1
               /\ RespondEmit(s, "share:created", nextShareId)
          ELSE /\ reqs' = Respond(s, 500, "")
               /\ UNCHANGED <<shares, nextShareId, events>>
    /\ UNCHANGED <<files, file_versions, user_quotas, blobs,
                   nextFileId, nextPath, schema,
                   clock, nextToken, config>>

\* -------------------------------- DELETE /:fileId/shares/:shareId
StartRevokeShare(s, users, fileIds, shareIds) ==
    /\ Free(s)
    /\ \E u \in users, f \in fileIds, i \in shareIds :
          Accept(s, NewRequest("revokeShare", u, f, [shareId |-> i], "check"))
    /\ UNCHANGED <<files, file_versions, shares, user_quotas, blobs,
                   nextFileId, nextShareId, nextPath, schema,
                   clock, nextToken, config>>

\* Verify file ownership, else 404
SrCheck(s) ==
    /\ Running(s) /\ reqs[s].op = "revokeShare" /\ reqs[s].pc = "check"
    /\ reqs' = IF ~OwnedFile(reqs[s].userId, reqs[s].fileId)
               THEN Respond(s, 404, "File not found")
               ELSE Goto(s, "delete", [none |-> TRUE])
    /\ UNCHANGED <<files, file_versions, shares, user_quotas, blobs, events,
                   nextFileId, nextShareId, nextPath, schema,
                   clock, nextToken, config>>

\* .from("shares").delete().eq("id", shareId).eq("file_id", fileId)
RevokedRowsBug(shareId, fileId) == {i \in DOMAIN shares : i = shareId}

RevokedRows(shareId, fileId) ==
    {i \in DOMAIN shares : i = shareId /\ shares[i].file_id = fileId}

\* delete().eq("id", shareId).eq("file_id", fileId); if (deleteError) throw;
\* emit share:revoked; 200
SrDelete(s) ==
    /\ Running(s) /\ reqs[s].op = "revokeShare" /\ reqs[s].pc = "delete"
    /\ \E ok \in BOOLEAN :
          IF ok
          THEN /\ shares' =
                     DeleteRows(shares,
                                RevokedRows(reqs[s].body.shareId, reqs[s].fileId))
               /\ RespondEmit(s, "share:revoked", reqs[s].body.shareId)
          ELSE /\ reqs' = Respond(s, 500, "")
               /\ UNCHANGED <<shares, events>>
    /\ UNCHANGED <<files, file_versions, user_quotas, blobs,
                   nextFileId, nextShareId, nextPath, schema,
                   clock, nextToken, config>>

\* ------------------------------------------- POST /:fileId/public
\* Request bodies: expiresAt absent (or ""), or a time
PublicBodies(times) ==
    {[hasExpiry |-> FALSE, expiresAt |-> NoExpiry]}
    \cup {[hasExpiry |-> TRUE, expiresAt |-> x] : x \in times}

StartCreatePublic(s, users, fileIds, bodies) ==
    /\ Free(s)
    /\ \E u \in users, f \in fileIds, b \in bodies :
          Accept(s, NewRequest("createPublic", u, f, b, "check"))
    /\ UNCHANGED <<files, file_versions, shares, user_quotas, blobs,
                   nextFileId, nextShareId, nextPath, schema,
                   clock, nextToken, config>>

\* Verify ownership, else 404
PcCheck(s) ==
    /\ Running(s) /\ reqs[s].op = "createPublic" /\ reqs[s].pc = "check"
    /\ reqs' = IF ~OwnedFile(reqs[s].userId, reqs[s].fileId)
               THEN Respond(s, 404, "File not found")
               ELSE Goto(s, "insert", [none |-> TRUE])
    /\ UNCHANGED <<files, file_versions, shares, user_quotas, blobs, events,
                   nextFileId, nextShareId, nextPath, schema,
                   clock, nextToken, config>>

\* The row of a public link: expires_at is expiresAt || null
NewPublicRow(fileId, userId, token, body) ==
    [file_id |-> fileId, owner_id |-> userId, shared_with_email |-> "",
     permissions |-> "view", share_type |-> "public",
     public_token |-> token,
     expires_at |-> IF body.hasExpiry THEN body.expiresAt ELSE NoExpiry,
     created_at |-> clock]

\* publicToken = randomBytes; insert the share; if (error) throw; 200, no emit
PcInsert(s) ==
    /\ Running(s) /\ reqs[s].op = "createPublic" /\ reqs[s].pc = "insert"
    /\ nextShareId <= MaxShares
    /\ \E ok \in BOOLEAN :
          IF ok
          THEN /\ shares' = Extend(shares, nextShareId,
                                   NewPublicRow(reqs[s].fileId, reqs[s].userId,
                                                nextToken, reqs[s].body))
               /\ nextShareId' = nextShareId + 1
               /\ nextToken' = nextToken + 1
               /\ reqs' = [reqs EXCEPT ![s].pc = "done", ![s].status = 200,
                                       ![s].loc = [token |-> nextToken]]
          ELSE /\ reqs' = Respond(s, 500, "")
               /\ UNCHANGED <<shares, nextShareId, nextToken>>
    /\ UNCHANGED <<files, file_versions, user_quotas, blobs, events,
                   nextFileId, nextPath, schema, clock, config>>

\* ----------------------------------------------- GET /public/:token
\* The route has no authMiddleware: the request carries no user
Anonymous == "anonymous"

StartResolvePublic(s, tokens) ==
    /\ Free(s)
    /\ \E k \in tokens :
          Accept(s, NewRequest("resolvePublic", Anonymous, 0,
                               [token |-> k], "fetch"))
    /\ UNCHANGED <<files, file_versions, shares, user_quotas, blobs,
                   nextFileId, nextShareId, nextPath, schema,
                   clock, nextToken, config>>

\* .eq("public_token", token).eq("share_type", "public")
PublicRows(token) ==
    {i \in DOMAIN shares :
        shares[i].public_token = token /\ shares[i].share_type = "public"}

\* share.expires_at && new Date(share.expires_at) < new Date()
LinkExpiredBug(expiresAt, now) == expiresAt < now

LinkExpired(expiresAt, now) == expiresAt # NoExpiry /\ expiresAt < now

\* maybeSingle(): several rows are an error (throw, 500), no row is 404; an
\* expired link is 410; share.files is null when the file row is gone (the
\* read of its path throws, 500)
RpFetch(s) ==
    /\ Running(s) /\ reqs[s].op = "resolvePublic" /\ reqs[s].pc = "fetch"
    /\ LET rows == PublicRows(reqs[s].body.token)
       IN  reqs' =
             IF Cardinality(rows) > 1 THEN Respond(s, 500, "")
             ELSE IF rows = {} THEN Respond(s, 404, "Link not found")
             ELSE LET share == shares[CHOOSE i \in rows : TRUE]
                  IN  IF LinkExpired(share.expires_at, clock)
                      THEN Respond(s, 410, "Link expired")
                      ELSE IF share.file_id \notin DOMAIN files
                           THEN Respond(s, 500, "")
                           ELSE Goto(s, "sign",
                                     [path |-> files[share.file_id].path])
    /\ UNCHANGED <<files, file_versions, shares, user_quotas, blobs, events,
                   nextFileId, nextShareId, nextPath, schema,
                   clock, nextToken, config>>

\* createSignedUrl(path, 3600): an error (no such object) throws, 500
RpSign(s) ==
    /\ Running(s) /\ reqs[s].op = "resolvePublic" /\ reqs[s].pc = "sign"
    /\ reqs' = IF reqs[s].loc.path \in blobs
               THEN [reqs EXCEPT ![s].pc = "done", ![s].status = 200,
                                 ![s].code = "downloadUrl"]
               ELSE Respond(s, 500, "")
    /\ UNCHANGED <<files, file_versions, shares, user_quotas, blobs, events,
                   nextFileId, nextShareId, nextPath, schema,
                   clock, nextToken, config>>

\* -------------------------------------------- DELETE /public/:token
StartRevokePublic(s, users, tokens) ==
    /\ Free(s)
    /\ \E u \in users, k \in tokens :
          Accept(s, NewRequest("revokePublic", u, 0, [token |-> k], "delete"))
    /\ UNCHANGED <<files, file_versions, shares, user_quotas, blobs,
                   nextFileId, nextShareId, nextPath, schema,
                   clock, nextToken, config>>

\* .from("shares").delete().eq("public_token", token).eq("owner_id", userId)
RevokedLinks(token, userId) ==
    {i \in DOMAIN shares :
        shares[i].public_token = token /\ shares[i].owner_id = userId}

\* delete().eq("public_token", token).eq("owner_id", userId); 200, no emit
RvkDelete(s) ==
    /\ Running(s) /\ reqs[s].op = "revokePublic" /\ reqs[s].pc = "delete"
    /\ \E ok \in BOOLEAN :
          IF ok
          THEN /\ shares' =
                     DeleteRows(shares,
                                RevokedLinks(reqs[s].body.token, reqs[s].userId))
               /\ reqs' = [reqs EXCEPT ![s].pc = "done", ![s].status = 200]
          ELSE /\ reqs' = Respond(s, 500, "")
               /\ UNCHANGED shares
    /\ UNCHANGED <<files, file_versions, user_quotas, blobs, events,
                   nextFileId, nextShareId, nextPath, schema,
                   clock, nextToken, config>>

\* Time passes
Tick ==
    /\ clock < MaxClock
    /\ clock' = clock + 1
    /\ UNCHANGED <<files, file_versions, shares, user_quotas, blobs, events,
                   nextFileId, nextShareId, nextPath, schema,
                   nextToken, config, reqs>>

\* ------------------------------------------ POST /api/billing/webhook
\* The plans and their ceilings (storage in MiB)
PLANS ==
    [free |-> [storageLimit |-> 5 * 1024, fileCountLimit |-> 10000],
     pro |-> [storageLimit |-> 200 * 1024, fileCountLimit |-> 100000],
     business |-> [storageLimit |-> 2 * 1024 * 1024,
                   fileCountLimit |-> 1000000]]

\* The JSON payloads a webhook request carries: event type and metadata
\* ("" for a field that is absent)
WebhookPayloads ==
    {[type |-> ty, userId |-> u, planId |-> pl] :
        ty \in {"checkout.session.completed", "customer.subscription.updated",
                "customer.subscription.created",
                "customer.subscription.deleted", "invoice.paid"},
        u \in {"", "u1"}, pl \in {"", "pro", "enterprise"}}

\* A webhook request: its payload and whether its stripe-signature header
\* verifies against the payload with the webhook secret
WebhookBodies ==
    {[payload |-> e, sigValid |-> v] : e \in WebhookPayloads, v \in BOOLEAN}

StartWebhook(s, bodies) ==
    /\ Free(s)
    /\ \E b \in bodies :
          Accept(s, NewRequest("webhook", Anonymous, 0, b, "verify"))
    /\ UNCHANGED <<files, file_versions, shares, user_quotas, blobs,
                   nextFileId, nextShareId, nextPath, schema,
                   clock, nextToken, config>>

\* The event the handler looks at: with a webhook secret, constructEvent
\* parses the payload or throws on a bad signature ("error"); without one the
\* event is req.body, the raw bytes express.raw left, which has no type
\* ("undefined")
WebhookEventBug(body) ==
    IF config.whSecret
    THEN body.payload
    ELSE [type |-> "undefined", userId |-> "", planId |-> ""]

WebhookEvent(body) ==
    IF config.whSecret
    THEN IF body.sigValid THEN body.payload
         ELSE [type |-> "error", userId |-> "", planId |-> ""]
    ELSE [type |-> "undefined", userId |-> "", planId |-> ""]

\* switch (event.type): the plan to upsert for the user, "" when there is
\* nothing to do
WebhookPlan(event) ==
    IF event.type \in {"checkout.session.completed",
                       "customer.subscription.updated",
                       "customer.subscription.created"}
    THEN IF event.userId # "" /\ event.planId \in DOMAIN PLANS
         THEN event.planId ELSE ""
    ELSE IF event.type = "customer.subscription.deleted"
    THEN IF event.userId # "" THEN "free" ELSE ""
    ELSE ""

\* if (!stripe) 200; a signature that does not verify, 400; nothing to
\* upsert, 200
WhVerify(s) ==
    /\ Running(s) /\ reqs[s].op = "webhook" /\ reqs[s].pc = "verify"
    /\ LET event == WebhookEvent(reqs[s].body)
       IN  reqs' = IF ~config.stripe THEN Respond(s, 200, "")
                   ELSE IF event.type = "error"
                        THEN Respond(s, 400, "Webhook Error")
                        ELSE IF WebhookPlan(event) = ""
                             THEN Respond(s, 200, "")
                             ELSE Goto(s, "upsert",
                                       [userId |-> event.userId,
                                        planId |-> WebhookPlan(event)])
    /\ UNCHANGED <<files, file_versions, shares, user_quotas, blobs, events,
                   nextFileId, nextShareId, nextPath, schema,
                   clock, nextToken, config>>

\* upsert({user_id, plan, storage_limit, file_count_limit}, onConflict user_id):
\* a new row takes the table's defaults for the counters
UpsertQuota(userId, planId) ==
    Extend(user_quotas, userId,
           [plan |-> planId,
            storage_used |-> IF userId \in DOMAIN user_quotas
                             THEN user_quotas[userId].storage_used ELSE 0,
            storage_limit |-> PLANS[planId].storageLimit,
            file_count |-> IF userId \in DOMAIN user_quotas
                           THEN user_quotas[userId].file_count ELSE 0,
            file_count_limit |-> PLANS[planId].fileCountLimit])

\* await the upsert (its error is not looked at); 200
WhUpsert(s) ==
    /\ Running(s) /\ reqs[s].op = "webhook" /\ reqs[s].pc = "upsert"
    /\ \E ok \in BOOLEAN :
          user_quotas' = IF ok THEN UpsertQuota(reqs[s].loc.userId,
                                                reqs[s].loc.planId)
                         ELSE user_quotas
    /\ reqs' = Respond(s, 200, "")
    /\ UNCHANGED <<files, file_versions, shares, blobs, events,
                   nextFileId, nextShareId, nextPath, schema,
                   clock, nextToken, config>>

\* ---------------------------------------------------- specifications
\* Requests are serialized: one starts only when every other one is answered
Serial(s) == s = 1 /\ \A x \in Slots : ~Running(x)

NoConstraints == [uniqueVersion |-> FALSE, uniqueShare |-> FALSE]

\* STRIPE_SECRET_KEY and STRIPE_WEBHOOK_SECRET are both set
StripeConfigured == [stripe |-> TRUE, whSecret |-> TRUE]

InitEmpty ==
    /\ file_versions = <<>>
    /\ shares = <<>>
    /\ events = {}
    /\ nextShareId = 1
    /\ schema = NoConstraints
    /\ clock = 1
    /\ nextToken = 1
    /\ config = StripeConfigured
    /\ reqs = [s \in Slots |-> Idle]

\* user_quotas rows: storage_used and file_count are kept by the database (no
\* handler writes them); the limits are those of the free plan
QuotaRowChoices ==
    {[plan |-> "free", storage_used |-> su,
      storage_limit |-> DefaultStorageLimit,
      file_count |-> fc, file_count_limit |-> DefaultFileCountLimit] :
        su \in {0, DefaultStorageLimit - 2, DefaultStorageLimit - 1,
                DefaultStorageLimit},
        fc \in {DefaultFileCountLimit - 1, DefaultFileCountLimit}}

\* Uploads and version creations against the quota table
InitQuota ==
    /\ InitEmpty
    /\ files = <<>>
    /\ blobs = {}
    /\ nextFileId = 1
    /\ nextPath = 1
    /\ user_quotas \in {<<>>} \cup {[u \in {"u1"} |-> q] : q \in QuotaRowChoices}

NextQuota ==
    \E s \in Slots :
        \/ Serial(s) /\ nextPath <= MaxPaths /\ nextFileId <= MaxFiles
                     /\ StartUpload(s, {"u1"}, UploadBodies(Sizes, {NoParent}))
        \/ UploadQuota(s)
        \/ UploadBlob(s)
        \/ UploadInsert(s)
        \/ Serial(s) /\ nextPath <= MaxPaths /\ Len(file_versions) < MaxVersions
                     /\ StartCreateVersion(s, {"u1"}, {1}, VersionBodies(Sizes))
        \/ CvCheck(s)
        \/ CvBlob(s)
        \/ CvReadMax(s)
        \/ CvInsert(s)
        \/ CvUpdate(s)

SpecQuota == InitQuota /\ [][NextQuota]_vars

\* The state an upload of u1 leaves: one file, its blob, no version
InitCatalog ==
    /\ InitEmpty
    /\ files = Extend(<<>>, 1, NewFileRow("u1", "a", 1, 1, NoParent))
    /\ blobs = {1}
    /\ nextFileId = 2
    /\ nextPath = 2
    /\ user_quotas = <<>>

VersionPatchBodies ==
    {b \in PatchBodies : ~b.hasParent /\ b.name # " " /\ b.starred = "undefined"}

\* Version history and trash of file 1, by its owner u1 and by u2
NextVersions ==
    \E s \in Slots :
        \/ Serial(s) /\ nextPath <= MaxPaths /\ Len(file_versions) < MaxVersions
                     /\ StartCreateVersion(s, Users, {1}, VersionBodies({1, 2}))
        \/ CvCheck(s)
        \/ CvBlob(s)
        \/ CvReadMax(s)
        \/ CvInsert(s)
        \/ CvUpdate(s)
        \/ Serial(s) /\ Len(file_versions) < MaxVersions
                     /\ StartRestoreVersion(s, Users, {1}, RestoreVersionBodies)
        \/ RvCheck(s)
        \/ RvFetch(s)
        \/ RvUpdate(s)
        \/ RvReadMax(s)
        \/ RvInsert(s)
        \/ Serial(s) /\ StartSoftDelete(s, Users, {1})
        \/ SdCheck(s)
        \/ SdUpdate(s)
        \/ Serial(s) /\ StartRestore(s, Users, {1})
        \/ RsCheck(s)
        \/ RsUpdate(s)
        \/ Serial(s) /\ StartPatch(s, Users, {1}, VersionPatchBodies)
        \/ PtCheck(s)
        \/ PtUpdate(s)

SpecVersions == InitCatalog /\ [][NextVersions]_vars

SharePatchBodies == {b \in PatchBodies : b.starred = "undefined"}

\* Sharing of file 1 by its owner u1, and what the users shared with can do
NextShares ==
    \E s \in Slots :
        \/ Serial(s) /\ nextShareId <= MaxShares
                     /\ StartShare(s, Users, {1}, ShareBodies({"", "e1", "e2", "ex"}))
        \/ ShCheck(s)
        \/ ShTarget(s)
        \/ ShExisting(s)
        \/ ShInsert(s)
        \/ Serial(s) /\ StartDownload(s, Users, {1, 2})
        \/ DlPerm(s)
        \/ DlFetch(s)
        \/ DlSign(s)
        \/ Serial(s) /\ StartPatch(s, Users, {1}, SharePatchBodies)
        \/ PtCheck(s)
        \/ PtUpdate(s)
        \/ Serial(s) /\ StartSoftDelete(s, Users, {1})
        \/ SdCheck(s)
        \/ SdUpdate(s)
        \/ Serial(s) /\ StartRestore(s, Users, {1})
        \/ RsCheck(s)
        \/ RsUpdate(s)

SpecShares == InitCatalog /\ [][NextShares]_vars

\* The ids a parentId can name: the rows there are, or none
ParentInputs == {NoParent} \cup DOMAIN files

\* The tree of files and folders: uploads and moves by u1, folders by u1 and
\* u2, and the versions and the trash of what u1 created
NextTree ==
    \E s \in Slots :
        \/ Serial(s) /\ nextPath <= MaxPaths /\ nextFileId <= MaxFiles
                     /\ StartUpload(s, {"u1"}, UploadBodies({1}, ParentInputs))
        \/ UploadQuota(s)
        \/ UploadBlob(s)
        \/ UploadInsert(s)
        \/ Serial(s) /\ nextPath <= MaxPaths /\ nextFileId <= MaxFiles
                     /\ StartCreateFolder(s, Users, FolderBodies(ParentInputs))
        \/ FdInsert(s)
        \/ Serial(s) /\ StartPatch(s, {"u1"}, DOMAIN files,
                                    MoveBodies(ParentInputs))
        \/ PtCheck(s)
        \/ PtUpdate(s)
        \/ Serial(s) /\ nextPath <= MaxPaths /\ Len(file_versions) < MaxVersions
                     /\ StartCreateVersion(s, {"u1"}, DOMAIN files,
                                           VersionBodies({2}))
        \/ CvCheck(s)
        \/ CvBlob(s)
        \/ CvReadMax(s)
        \/ CvInsert(s)
        \/ CvUpdate(s)
        \/ Serial(s) /\ Len(file_versions) < MaxVersions
                     /\ StartRestoreVersion(s, {"u1"}, DOMAIN files,
                                            {[nan |-> FALSE, versionNumber |-> 1]})
        \/ RvCheck(s)
        \/ RvFetch(s)
        \/ RvUpdate(s)
        \/ RvReadMax(s)
        \/ RvInsert(s)
        \/ Serial(s) /\ StartSoftDelete(s, {"u1"}, DOMAIN files)
        \/ SdCheck(s)
        \/ SdUpdate(s)
        \/ Serial(s) /\ StartRestore(s, {"u1"}, DOMAIN files)
        \/ RsCheck(s)
        \/ RsUpdate(s)

SpecTree == InitCatalog /\ [][NextTree]_vars

\* The trash: soft delete, restore and permanent delete by u1 and u2 of file 1
\* and of the file u1 uploads
NextTrash ==
    \E s \in Slots :
        \/ Serial(s) /\ nextPath <= MaxPaths /\ nextFileId <= MaxFiles
                     /\ StartUpload(s, {"u1"},
                                    {[hasFile |-> TRUE, size |-> 1,
                                      parentId |-> NoParent]})
        \/ UploadQuota(s)
        \/ UploadBlob(s)
        \/ UploadInsert(s)
        \/ Serial(s) /\ StartSoftDelete(s, Users, {1})
        \/ SdCheck(s)
        \/ SdUpdate(s)
        \/ Serial(s) /\ StartRestore(s, Users, FileIdInputs)
        \/ RsCheck(s)
        \/ RsUpdate(s)
        \/ Serial(s) /\ StartPermanentDelete(s, Users, FileIdInputs)
        \/ PdCheck(s)
        \/ PdRemove(s)
        \/ PdDelete(s)

SpecTrash == InitCatalog /\ [][NextTrash]_vars

\* Shares and public links of file 1 (of u1) and of the file u2 uploads, and
\* their revocation by either user
NextRevoke ==
    \E s \in Slots :
        \/ Serial(s) /\ nextPath <= MaxPaths /\ nextFileId <= MaxFiles
                     /\ nextFileId = 2
                     /\ StartUpload(s, {"u2"},
                                    {[hasFile |-> TRUE, size |-> 1,
                                      parentId |-> NoParent]})
        \/ UploadQuota(s)
        \/ UploadBlob(s)
        \/ UploadInsert(s)
        \/ Serial(s) /\ nextShareId <= MaxShares
                     /\ StartShare(s, {"u1"}, {1},
                                   {[email |-> "e2", permissions |-> "view"]})
        \/ ShCheck(s)
        \/ ShTarget(s)
        \/ ShExisting(s)
        \/ ShInsert(s)
        \/ Serial(s) /\ nextShareId <= MaxShares
                     /\ StartCreatePublic(s, Users, {1, 2}, PublicBodies({}))
        \/ PcCheck(s)
        \/ PcInsert(s)
        \/ Serial(s) /\ StartRevokeShare(s, Users, {1, 2}, DOMAIN shares)
        \/ SrCheck(s)
        \/ SrDelete(s)
        \/ Serial(s) /\ StartRevokePublic(s, Users, 1..(nextToken - 1))
        \/ RvkDelete(s)

SpecRevoke == InitCatalog /\ [][NextRevoke]_vars

\* Overlapping targeted-share requests of the owner u1 for file 1 and e2
NextShareRace ==
    \E s \in Slots :
        \/ nextShareId <= MaxShares
              /\ StartShare(s, {"u1"}, {1}, ShareBodies({"e2"}))
        \/ ShCheck(s)
        \/ ShTarget(s)
        \/ ShExisting(s)
        \/ ShInsert(s)

SpecShareRace == InitCatalog /\ [][NextShareRace]_vars

\* Two users: u1 owns file 1 and gives it a version, a share and a public
\* link; u2 uploads file 2 and sends every request that takes a file id
\* against file 1 and against file 2
NextIsolation ==
    \E s \in Slots :
        \/ Serial(s) /\ nextPath <= MaxPaths /\ Len(file_versions) = 0
                     /\ StartCreateVersion(s, {"u1"}, {1},
                                           {[hasFile |-> TRUE, size |-> 2]})
        \/ Serial(s) /\ nextShareId = 1
                     /\ StartShare(s, {"u1"}, {1},
                                   {[email |-> "e2", permissions |-> "edit"]})
        \/ Serial(s) /\ nextShareId = 2
                     /\ StartCreatePublic(s, Users, {1, 2}, PublicBodies({}))
        \/ Serial(s) /\ nextPath <= MaxPaths /\ nextFileId = 2
                     /\ StartUpload(s, {"u2"},
                                    {[hasFile |-> TRUE, size |-> 1,
                                      parentId |-> NoParent]})
        \/ UploadQuota(s)
        \/ UploadBlob(s)
        \/ UploadInsert(s)
        \/ Serial(s) /\ StartPatch(s, {"u2"}, {1, 2},
                                    {b \in VersionPatchBodies :
                                        b.name \in {"undefined", "b"}})
        \/ PtCheck(s)
        \/ PtUpdate(s)
        \/ Serial(s) /\ StartSoftDelete(s, {"u2"}, {1, 2})
        \/ SdCheck(s)
        \/ SdUpdate(s)
        \/ Serial(s) /\ StartRestore(s, {"u2"}, {1, 2})
        \/ RsCheck(s)
        \/ RsUpdate(s)
        \/ Serial(s) /\ StartPermanentDelete(s, {"u2"}, {1, 2})
        \/ PdCheck(s)
        \/ PdRemove(s)
        \/ PdDelete(s)
        \/ Serial(s) /\ nextPath <= MaxPaths /\ Len(file_versions) = 1
                     /\ StartCreateVersion(s, {"u2"}, {1, 2}, VersionBodies({1}))
        \/ CvCheck(s)
        \/ CvBlob(s)
        \/ CvReadMax(s)
        \/ CvInsert(s)
        \/ CvUpdate(s)
        \/ Serial(s) /\ StartListVersions(s, {"u2"}, {1, 2})
        \/ LvCheck(s)
        \/ LvList(s)
        \/ Serial(s) /\ Len(file_versions) = 2
                     /\ StartRestoreVersion(s, {"u2"}, {1, 2},
                                            {b \in RestoreVersionBodies :
                                                b.versionNumber <= 1})
        \/ RvCheck(s)
        \/ RvFetch(s)
        \/ RvUpdate(s)
        \/ RvReadMax(s)
        \/ RvInsert(s)
        \/ Serial(s) /\ nextShareId = 2
                     /\ StartShare(s, {"u2"}, {1, 2},
                                   {b \in ShareBodies({"", "e1"}) :
                                       b.permissions \in {"view", "owner"}})
        \/ ShCheck(s)
        \/ ShTarget(s)
        \/ ShExisting(s)
        \/ ShInsert(s)
        \/ PcCheck(s)
        \/ PcInsert(s)
        \/ Serial(s) /\ StartRevokeShare(s, {"u2"}, {1, 2}, DOMAIN shares)
        \/ SrCheck(s)
        \/ SrDelete(s)
        \/ Serial(s) /\ StartListFiles(s, {"u2"}, ListQueries)
        \/ LsQuery(s)

SpecIsolation == InitCatalog /\ [][NextIsolation]_vars

\* The read paths of file 1 while it moves in and out of the trash: download
\* by the owner u1 and by u2, with whom it is shared, and the public link
NextRead ==
    \E s \in Slots :
        \/ Serial(s) /\ nextShareId <= MaxShares
                     /\ StartShare(s, {"u1"}, {1},
                                   {[email |-> "e2", permissions |-> "view"]})
        \/ ShCheck(s)
        \/ ShTarget(s)
        \/ ShExisting(s)
        \/ ShInsert(s)
        \/ Serial(s) /\ nextShareId <= MaxShares
                     /\ StartCreatePublic(s, {"u1"}, {1}, PublicBodies({}))
        \/ PcCheck(s)
        \/ PcInsert(s)
        \/ Serial(s) /\ StartSoftDelete(s, {"u1"}, {1})
        \/ SdCheck(s)
        \/ SdUpdate(s)
        \/ Serial(s) /\ StartRestore(s, {"u1"}, {1})
        \/ RsCheck(s)
        \/ RsUpdate(s)
        \/ Serial(s) /\ StartDownload(s, Users, {1})
        \/ DlPerm(s)
        \/ DlFetch(s)
        \/ DlSign(s)
        \/ Serial(s) /\ StartResolvePublic(s, 1..(nextToken - 1))
        \/ RpFetch(s)
        \/ RpSign(s)

SpecRead == InitCatalog /\ [][NextRead]_vars

\* Two requests of the owner u1 on file 1, one per slot and overlapping in
\* every way: soft deletes and restores of a file that is, or is not, in the
\* trash
InitTrashRace ==
    /\ InitEmpty
    /\ files \in {Extend(<<>>, 1, NewFileRow("u1", "a", 1, 1, NoParent)),
                  Extend(<<>>, 1, [NewFileRow("u1", "a", 1, 1, NoParent)
                                     EXCEPT !.is_deleted = TRUE,
                                            !.deleted_at = "ts"])}
    /\ blobs = {1}
    /\ nextFileId = 2
    /\ nextPath = 2
    /\ user_quotas = <<>>

NextTrashRace ==
    \E s \in Slots :
        \/ ~InFlight(s) /\ StartSoftDelete(s, {"u1"}, {1})
        \/ SdCheck(s)
        \/ SdUpdate(s)
        \/ ~InFlight(s) /\ StartRestore(s, {"u1"}, {1})
        \/ RsCheck(s)
        \/ RsUpdate(s)

SpecTrashRace == InitTrashRace /\ [][NextTrashRace]_vars

\* File 1 with a version, a share, a new name and a star, in and out of the
\* trash, all by its owner u1
NextRoundTrip ==
    \E s \in Slots :
        \/ Serial(s) /\ nextPath <= MaxPaths /\ Len(file_versions) = 0
                     /\ StartCreateVersion(s, {"u1"}, {1},
                                           {[hasFile |-> TRUE, size |-> 2]})
        \/ CvCheck(s)
        \/ CvBlob(s)
        \/ CvReadMax(s)
        \/ CvInsert(s)
        \/ CvUpdate(s)
        \/ Serial(s) /\ nextShareId <= MaxShares
                     /\ StartShare(s, {"u1"}, {1},
                                   {[email |-> "e2", permissions |-> "view"]})
        \/ ShCheck(s)
        \/ ShTarget(s)
        \/ ShExisting(s)
        \/ ShInsert(s)
        \/ Serial(s) /\ StartPatch(s, {"u1"}, {1},
                                    {b \in PatchBodies :
                                        ~b.hasParent /\ b.name # " "})
        \/ PtCheck(s)
        \/ PtUpdate(s)
        \/ Serial(s) /\ StartSoftDelete(s, {"u1"}, {1})
        \/ SdCheck(s)
        \/ SdUpdate(s)
        \/ Serial(s) /\ StartRestore(s, {"u1"}, {1})
        \/ RsCheck(s)
        \/ RsUpdate(s)

SpecRoundTrip == InitCatalog /\ [][NextRoundTrip]_vars

\* ----------------------------------------------------------------- realtime
\* What a socket handshake carries: handshake.auth.token, or the Authorization
\* header without its Bearer prefix (token: one of the two is not empty),
\* whether jwt.verify accepts it, and the userId of its payload
Handshakes ==
    {[token |-> FALSE, valid |-> FALSE, userId |-> ""],
     [token |-> TRUE, valid |-> FALSE, userId |-> "u1"],
     [token |-> TRUE, valid |-> FALSE, userId |-> "u2"],
     [token |-> TRUE, valid |-> TRUE, userId |-> "u1"],
     [token |-> TRUE, valid |-> TRUE, userId |-> "u2"],
     [token |-> TRUE, valid |-> TRUE, userId |-> "u3"]}

\* io.use(...): next(new Error("Unauthorized")), or socket.join and next()
HandshakeBug(h) ==
    IF ~h.token
    THEN [accepted |-> FALSE, userId |-> "", rooms |-> {}]
    ELSE [accepted |-> TRUE, userId |-> h.userId, rooms |-> {h.userId}]

Handshake(h) ==
    IF ~h.token
    THEN [accepted |-> FALSE, userId |-> "", rooms |-> {}]
    ELSE IF ~h.valid
    THEN [accepted |-> FALSE, userId |-> "", rooms |-> {}]
    ELSE [accepted |-> TRUE, userId |-> h.userId, rooms |-> {h.userId}]

\* A client opens a socket in slot s, in place of the socket the slot held;
\* the middleware runs without an await
Connect(s, handshakes) ==
    /\ Free(s)
    /\ \E h \in handshakes :
          LET r == Handshake(h)
          IN  Accept(s, [NewRequest("connect", r.userId, 0, h, "done")
                             EXCEPT !.loc = [accepted |-> r.accepted,
                                             rooms |-> r.rooms],
                                    !.code = IF r.accepted THEN ""
                                             ELSE "Unauthorized"])
    /\ UNCHANGED <<files, file_versions, shares, user_quotas, blobs,
                   nextFileId, nextShareId, nextPath, schema,
                   clock, nextToken, config>>

\* The rooms the socket of slot s is in (the room user:<id> is written <id>)
Rooms(s) == IF reqs[s].op = "connect" THEN reqs[s].loc.rooms ELSE {}

\* io.to(room).emit(...): the events that reach the socket of slot s
Receives(s) == {e \in events : e.room \in Rooms(s)}

\* u1 and u2 upload, u1 shares file 1 with u2 and moves it in and out of the
\* trash, while sockets connect and reconnect in slot 2
NextRealtime ==
    \E s \in Slots :
        \/ Serial(s) /\ nextPath <= MaxPaths /\ nextFileId <= MaxFiles
                     /\ StartUpload(s, Users,
                                    {[hasFile |-> TRUE, size |-> 1,
                                      parentId |-> NoParent]})
        \/ UploadQuota(s)
        \/ UploadBlob(s)
        \/ UploadInsert(s)
        \/ Serial(s) /\ nextShareId = 1
                     /\ StartShare(s, {"u1"}, {1},
                                   {[email |-> "e2", permissions |-> "view"]})
        \/ ShCheck(s)
        \/ ShTarget(s)
        \/ ShExisting(s)
        \/ ShInsert(s)
        \/ Serial(s) /\ StartSoftDelete(s, {"u1"}, {1})
        \/ SdCheck(s)
        \/ SdUpdate(s)
        \/ Serial(s) /\ StartRestore(s, {"u1"}, {1})
        \/ RsCheck(s)
        \/ RsUpdate(s)
        \/ s = 2 /\ Connect(s, Handshakes)

SpecRealtime == InitCatalog /\ [][NextRealtime]_vars

\* Every mutation, by the owner u1 on file 1 and on what u1 creates
NextEvents ==
    \E s \in Slots :
        \/ Serial(s) /\ nextPath <= MaxPaths /\ nextFileId <= MaxFiles
                     /\ StartUpload(s, {"u1"},
                                    {[hasFile |-> TRUE, size |-> 1,
                                      parentId |-> NoParent]})
        \/ UploadQuota(s)
        \/ UploadBlob(s)
        \/ UploadInsert(s)
        \/ Serial(s) /\ nextPath <= MaxPaths /\ nextFileId <= MaxFiles
                     /\ StartCreateFolder(s, {"u1"},
                                          {[name |-> "d", parentId |-> NoParent]})
        \/ FdInsert(s)
        \/ Serial(s) /\ StartPatch(s, {"u1"}, {1},
                                    {b \in VersionPatchBodies : b.name = "b"})
        \/ PtCheck(s)
        \/ PtUpdate(s)
        \/ Serial(s) /\ StartSoftDelete(s, {"u1"}, {1})
        \/ SdCheck(s)
        \/ SdUpdate(s)
        \/ Serial(s) /\ StartRestore(s, {"u1"}, {1})
        \/ RsCheck(s)
        \/ RsUpdate(s)
        \/ Serial(s) /\ StartPermanentDelete(s, {"u1"}, {1})
        \/ PdCheck(s)
        \/ PdRemove(s)
        \/ PdDelete(s)
        \/ Serial(s) /\ nextPath <= MaxPaths /\ Len(file_versions) = 0
                     /\ StartCreateVersion(s, {"u1"}, {1},
                                           {[hasFile |-> TRUE, size |-> 2]})
        \/ CvCheck(s)
        \/ CvBlob(s)
        \/ CvReadMax(s)
        \/ CvInsert(s)
        \/ CvUpdate(s)
        \/ Serial(s) /\ Len(file_versions) = 1
                     /\ StartRestoreVersion(s, {"u1"}, {1},
                                            {[nan |-> FALSE, versionNumber |-> 1]})
        \/ RvCheck(s)
        \/ RvFetch(s)
        \/ RvUpdate(s)
        \/ RvReadMax(s)
        \/ RvInsert(s)
        \/ Serial(s) /\ nextShareId <= MaxShares
                     /\ StartShare(s, {"u1"}, {1},
                                   {[email |-> "e2", permissions |-> "view"]})
        \/ ShCheck(s)
        \/ ShTarget(s)
        \/ ShExisting(s)
        \/ ShInsert(s)
        \/ Serial(s) /\ StartRevokeShare(s, {"u1"}, {1}, 1..MaxShares)
        \/ SrCheck(s)
        \/ SrDelete(s)
        \/ Serial(s) /\ nextShareId <= MaxShares
                     /\ StartCreatePublic(s, {"u1"}, {1}, PublicBodies({}))
        \/ PcCheck(s)
        \/ PcInsert(s)
        \/ Serial(s) /\ StartRevokePublic(s, {"u1"}, 1..MaxShares)
        \/ RvkDelete(s)

SpecEvents == InitCatalog /\ [][NextEvents]_vars

\* Requests to authenticated routes about file 1, with every kind of token
AuthRequests ==
    {[op |-> "upload", fileId |-> 0,
      body |-> [hasFile |-> TRUE, size |-> 1, parentId |-> NoParent]],
     [op |-> "patch", fileId |-> 1,
      body |-> [name |-> "b", hasParent |-> FALSE, parentId |-> NoParent,
                starred |-> "undefined"]],
     [op |-> "softDelete", fileId |-> 1, body |-> [none |-> TRUE]],
     [op |-> "permanentDelete", fileId |-> 1, body |-> [none |-> TRUE]],
     [op |-> "share", fileId |-> 1,
      body |-> [email |-> "e2", permissions |-> "view"]]}

NextAuth ==
    \E s \in Slots :
        \/ Serial(s) /\ nextPath <= MaxPaths /\ nextFileId <= MaxFiles
                     /\ nextShareId <= MaxShares
                     /\ StartAuthenticated(s, Tokens, AuthRequests)
        \/ AuthGate(s)
        \/ UploadQuota(s)
        \/ UploadBlob(s)
        \/ UploadInsert(s)
        \/ PtCheck(s)
        \/ PtUpdate(s)
        \/ SdCheck(s)
        \/ SdUpdate(s)
        \/ PdCheck(s)
        \/ PdRemove(s)
        \/ PdDelete(s)
        \/ ShCheck(s)
        \/ ShTarget(s)
        \/ ShExisting(s)
        \/ ShInsert(s)

SpecAuth == InitCatalog /\ [][NextAuth]_vars

\* The billing webhook under each configuration of the Stripe settings
InitBilling ==
    /\ files = <<>>
    /\ file_versions = <<>>
    /\ shares = <<>>
    /\ blobs = {}
    /\ events = {}
    /\ nextFileId = 1
    /\ nextShareId = 1
    /\ nextPath = 1
    /\ schema = NoConstraints
    /\ clock = 1
    /\ nextToken = 1
    /\ reqs = [s \in Slots |-> Idle]
    /\ config \in [stripe : BOOLEAN, whSecret : BOOLEAN]
    /\ user_quotas \in {<<>>} \cup {[u \in {"u1"} |-> q] : q \in QuotaRowChoices}

NextBilling ==
    \E s \in Slots :
        \/ Serial(s) /\ StartWebhook(s, WebhookBodies)
        \/ WhVerify(s)
        \/ WhUpsert(s)

SpecBilling == InitBilling /\ [][NextBilling]_vars

\* Overlapping uploads of u1 against the quota table
NextUploadRace ==
    \E s \in Slots :
        \/ nextPath <= MaxPaths
              /\ StartUpload(s, {"u1"}, UploadBodies(Sizes, {NoParent}))
        \/ UploadQuota(s)
        \/ UploadBlob(s)
        \/ UploadInsert(s)

SpecUploadRace == InitQuota /\ [][NextUploadRace]_vars

\* Overlapping createVersion and restoreVersion requests of u1 on file 1,
\* with and without a unique constraint on (file_id, version_number); the
\* requests arrive while the file has at most one version
InitVersionRace ==
    /\ files = Extend(<<>>, 1, NewFileRow("u1", "a", 1, 1, NoParent))
    /\ file_versions = <<>>
    /\ shares = <<>>
    /\ user_quotas = <<>>
    /\ blobs = {1}
    /\ events = {}
    /\ nextFileId = 2
    /\ nextShareId = 1
    /\ nextPath = 2
    /\ schema \in {[uniqueVersion |-> u, uniqueShare |-> FALSE] : u \in BOOLEAN}
    /\ clock = 1
    /\ nextToken = 1
    /\ config = StripeConfigured
    /\ reqs = [s \in Slots |-> Idle]

NextVersionRace ==
    \E s \in Slots :
        \/ nextPath <= MaxPaths /\ Len(file_versions) <= 1
              /\ StartCreateVersion(s, {"u1"}, {1},
                                    {[hasFile |-> TRUE, size |-> 2]})
        \/ CvCheck(s)
        \/ CvBlob(s)
        \/ CvReadMax(s)
        \/ CvInsert(s)
        \/ CvUpdate(s)
        \/ Len(file_versions) = 1
              /\ StartRestoreVersion(s, {"u1"}, {1},
                                     {[nan |-> FALSE, versionNumber |-> 1]})
        \/ RvCheck(s)
        \/ RvFetch(s)
        \/ RvUpdate(s)
        \/ RvReadMax(s)
        \/ RvInsert(s)

SpecVersionRace == InitVersionRace /\ [][NextVersionRace]_vars

\* Public links of file 1: created and revoked by u1 or u2, resolved by anyone
NextPublic ==
    \/ Tick
    \/ \E s \in Slots :
        \/ Serial(s) /\ nextShareId <= MaxShares
                     /\ StartCreatePublic(s, Users, {1},
                                          PublicBodies(1..MaxClock))
        \/ PcCheck(s)
        \/ PcInsert(s)
        \/ Serial(s) /\ StartResolvePublic(s, 1..(MaxShares + 1))
        \/ RpFetch(s)
        \/ RpSign(s)
        \/ Serial(s) /\ StartRevokePublic(s, Users, 1..MaxShares)
        \/ RvkDelete(s)
        \/ Serial(s) /\ StartSoftDelete(s, {"u1"}, {1})
        \/ SdCheck(s)
        \/ SdUpdate(s)

SpecPublic == InitCatalog /\ [][NextPublic]_vars

\* ------------------------------------------------------------ claims
Done(s) == InFlight(s) /\ reqs[s].pc = "done"

\* The caller owned the file when the request arrived
OwnedAtArrival(r) ==
    r.fileId \in DOMAIN r.pre.files /\ r.pre.files[r.fileId].user_id = r.userId

\* The version numbers file f had when request r arrived
NumbersAtArrival(r) ==
    {r.pre.file_versions[i].version_number :
        i \in {j \in 1..Len(r.pre.file_versions) :
                  r.pre.file_versions[j].file_id = r.fileId}}

MaxOrZero(S) == IF S = {} THEN 0 ELSE SetMax(S)

\* storage_used + incoming size > storage_limit in the quota table the request
\* found (no row: used 0, limit 5 GiB)
OverStorageLimit(r) ==
    LET q == r.pre.user_quotas
    IN  IF r.userId \in DOMAIN q
        THEN q[r.userId].storage_used + r.body.size > q[r.userId].storage_limit
        ELSE r.body.size > 5 * 1024

\* C1: an upload of a file by a user whose storage_used + size > storage_limit
\* is answered 403 STORAGE_LIMIT_EXCEEDED, and at no point of the request has a
\* blob been written or a files row been inserted.
C1_OverLimitUploadRejected ==
    \A s \in Slots :
        (InFlight(s) /\ reqs[s].op = "upload" /\ reqs[s].body.hasFile
         /\ OverStorageLimit(reqs[s]))
        => /\ files = reqs[s].pre.files
           /\ blobs = reqs[s].pre.blobs
           /\ Done(s) => /\ reqs[s].status = 403
                         /\ reqs[s].code = "STORAGE_LIMIT_EXCEEDED"

C1_Witness ==
    \E s \in Slots :
        /\ Done(s) /\ reqs[s].op = "upload" /\ reqs[s].body.hasFile
        /\ OverStorageLimit(reqs[s])
        /\ reqs[s].status = 403

\* C2: every blob a request (upload or createVersion) has written to object
\* storage was preceded, in that request, by a quota check that returned allowed.
C2_QuotaCheckBeforeBlobWrite ==
    \A s \in Slots :
        (InFlight(s) /\ reqs[s].op \in {"upload", "createVersion"}
         /\ "path" \in DOMAIN reqs[s].loc)
        => reqs[s].loc.quotaChecked

\* C3: with serialized requests on a file that starts without versions, the
\* version numbers of the file are exactly 1..N for its N rows (no gap, no
\* duplicate), and every successful version creation has appended one row
\* numbered (max version number the file had, or 0) + 1.
C3_VersionNumbersSequential ==
    /\ \A f \in DOMAIN files :
          /\ {file_versions[i].version_number : i \in VersionsOf(f)}
                = 1..Cardinality(VersionsOf(f))
          /\ \A i, j \in VersionsOf(f) :
                file_versions[i].version_number = file_versions[j].version_number
                => i = j
    /\ \A s \in Slots :
          (Done(s) /\ reqs[s].op = "createVersion" /\ reqs[s].status = 200)
          => /\ Len(file_versions) = Len(reqs[s].pre.file_versions) + 1
             /\ SubSeq(file_versions, 1, Len(reqs[s].pre.file_versions))
                   = reqs[s].pre.file_versions
             /\ file_versions[Len(file_versions)].file_id = reqs[s].fileId
             /\ file_versions[Len(file_versions)].version_number
                   = MaxOrZero(NumbersAtArrival(reqs[s])) + 1

C3_Witness ==
    \E s \in Slots :
        /\ Done(s) /\ reqs[s].op = "createVersion" /\ reqs[s].status = 200
        /\ Len(file_versions) = 3
        /\ \A i \in 1..3 : file_versions[i].change_type = "update"

\* The rows of version k of the request's file when the request arrived
RowsAtArrival(r, k) ==
    {i \in 1..Len(r.pre.file_versions) :
        /\ r.pre.file_versions[i].file_id = r.fileId
        /\ r.pre.file_versions[i].version_number = k}

\* C4: restoreVersion(fileId, K) by the owner of the file: when version K
\* exists and the latest version is N, a successful call has appended exactly
\* one row, numbered N+1, change_type restore, with version K's path and size,
\* has set the File row's path and size to version K's and has left the other
\* rows as they were; when version K does not exist the call answers 404 and
\* neither the File row nor the history changes.
C4_RestoreAppendsCopy ==
    \A s \in Slots :
        (InFlight(s) /\ reqs[s].op = "restoreVersion" /\ ~reqs[s].body.nan
         /\ OwnedAtArrival(reqs[s]))
        => LET r == reqs[s]
               rows == RowsAtArrival(r, r.body.versionNumber)
           IN  IF rows # {}
               THEN Done(s) =>
                      /\ r.status \in {200, 500}
                      /\ r.status = 200 =>
                           LET k == r.pre.file_versions[CHOOSE i \in rows : TRUE]
                               n == MaxOrZero(NumbersAtArrival(r))
                           IN  /\ file_versions =
                                     Append(r.pre.file_versions,
                                            [file_id |-> r.fileId,
                                             version_number |-> n + 1,
                                             size |-> k.size, path |-> k.path,
                                             change_type |-> "restore",
                                             created_by |-> r.userId])
                               /\ files[r.fileId].path = k.path
                               /\ files[r.fileId].size = k.size
               ELSE /\ files = r.pre.files
                    /\ file_versions = r.pre.file_versions
                    /\ Done(s) => r.status = 404

C4_Witness ==
    \E s \in Slots :
        /\ Done(s) /\ reqs[s].op = "restoreVersion" /\ reqs[s].status = 200
        /\ reqs[s].body.versionNumber = 1
        /\ Len(file_versions) = 3
        /\ file_versions[2].path # file_versions[1].path
        /\ files[1].path = file_versions[1].path

\* C5: once every request is answered, the File row of a file that has
\* versions carries the path and size of its version with the highest number.
C5_FileReflectsLatestVersion ==
    (\A s \in Slots : ~Running(s))
    => \A f \in DOMAIN files :
          VersionsOf(f) # {}
          => \E i \in VersionsOf(f) :
                /\ \A j \in VersionsOf(f) :
                      file_versions[j].version_number
                         <= file_versions[i].version_number
                /\ files[f].path = file_versions[i].path
                /\ files[f].size = file_versions[i].size

C7_TrashConflictNoEffect ==
    \A s \in Slots :
        (InFlight(s) /\ OwnedAtArrival(reqs[s])
         /\ \/ /\ reqs[s].op = "softDelete"
               /\ reqs[s].pre.files[reqs[s].fileId].is_deleted
            \/ /\ reqs[s].op = "restore"
               /\ ~reqs[s].pre.files[reqs[s].fileId].is_deleted)
        => /\ files = reqs[s].pre.files
           /\ EmittedBy(s) = {}
           /\ Done(s) => reqs[s].status = 409

C7_Witness ==
    \E s \in Slots :
        /\ Done(s) /\ reqs[s].op = "softDelete" /\ reqs[s].status = 409
        /\ OwnedAtArrival(reqs[s])
        /\ files[reqs[s].fileId].is_deleted
        /\ files[reqs[s].fileId].deleted_at = "ts"

\* The caller does not own the file and holds exactly one share of it, a
\* private share with permissions "view"
ViewShareOnly(r) ==
    /\ r.fileId \in DOMAIN r.pre.files
    /\ r.pre.files[r.fileId].user_id # r.userId
    /\ LET rows == {i \in DOMAIN r.pre.shares :
                       /\ r.pre.shares[i].file_id = r.fileId
                       /\ r.pre.shares[i].shared_with_email = profiles[r.userId]}
       IN  /\ Cardinality(rows) = 1
           /\ \A i \in rows : /\ r.pre.shares[i].permissions = "view"
                              /\ r.pre.shares[i].share_type = "private"

\* C8 as claimed: PATCH and DELETE by a user with only a view share are
\* answered 403.
C8_ViewShareMutationIs403 ==
    \A s \in Slots :
        (Done(s) /\ reqs[s].op \in {"patch", "softDelete"}
         /\ ViewShareOnly(reqs[s]))
        => reqs[s].status = 403

\* C8 amended: a user with only a view share on F gets the download URL of F
\* while F is not in the trash (404 while it is); a PATCH or DELETE by that
\* user is answered 404, changes no files row and emits no event.
C8_ViewShareReadOnly ==
    \A s \in Slots :
        (InFlight(s) /\ reqs[s].op \in {"patch", "softDelete", "download"}
         /\ ViewShareOnly(reqs[s]))
        => IF reqs[s].op = "download"
           THEN Done(s) =>
                  IF reqs[s].pre.files[reqs[s].fileId].is_deleted
                  THEN reqs[s].status = 404
                  ELSE reqs[s].status = 200 /\ reqs[s].code = "downloadUrl"
           ELSE /\ files = reqs[s].pre.files
                /\ EmittedBy(s) = {}
                /\ Done(s) => reqs[s].status = 404

C8_Witness ==
    \E s \in Slots :
        /\ Done(s) /\ reqs[s].op = "patch" /\ ViewShareOnly(reqs[s])
        /\ reqs[s].status = 404
        /\ reqs[s].body.name = "b"

\* C9: hasFilePermission agrees with the decision table: the owner is allowed
\* with level owner whatever is needed; a non-owner is never allowed for owner;
\* a non-owner without a share row for (file, own email) is denied with level
\* null; a non-owner with a share row is allowed for view at any share level
\* and for edit exactly when the share level is edit or admin, and an admin
\* share is reported as level edit.
C9_PermissionDecisionTable ==
    \A u \in Users, f \in FileIdInputs, needed \in {"view", "edit", "owner"} :
        LET got == hasFilePermission(u, f, needed)
            rows == {i \in DOMAIN shares :
                        /\ shares[i].file_id = f
                        /\ shares[i].shared_with_email = profiles[u]}
        IN  IF f \in DOMAIN files /\ files[f].user_id = u
            THEN got.allowed /\ got.level = "owner"
            ELSE IF needed = "owner" THEN ~got.allowed
            ELSE IF rows = {} THEN ~got.allowed /\ got.level = "null"
            ELSE \A i \in rows :
                    /\ needed = "view" => got.allowed
                    /\ needed = "edit" =>
                          (got.allowed <=> shares[i].permissions \in {"edit", "admin"})
                    /\ shares[i].permissions = "admin" => got.level = "edit"

C9_Witness ==
    \E s \in Slots :
        /\ Done(s) /\ reqs[s].op = "download" /\ reqs[s].userId = "u2"
        /\ reqs[s].status = 200
        /\ reqs[s].loc.perm.level = "edit"
        /\ \E i \in DOMAIN shares :
              /\ shares[i].shared_with_email = "e2"
              /\ shares[i].permissions = "admin"

\* The request is the owner's share of (F, E) and a share row for (F, E) was
\* there when it arrived (an earlier request for the pair succeeded)
SecondShare(r) ==
    /\ r.op = "share" /\ OwnedAtArrival(r)
    /\ \E i \in DOMAIN r.pre.shares :
          /\ r.pre.shares[i].file_id = r.fileId
          /\ r.pre.shares[i].shared_with_email = r.body.email

\* C10 as claimed: the second share request for (F, E) is answered 409,
\* whatever permissions value it carries.
C10_SecondShareIs409 ==
    \A s \in Slots :
        (Done(s) /\ SecondShare(reqs[s])) => reqs[s].status = 409

\* C10 amended: the owner's second serialized share request for (F, E) inserts
\* nothing, so exactly one share row exists for (F, E); it is answered 409 when
\* its permissions value is view, edit or admin (or absent), and 400 when the
\* value is anything else.
C10_SecondShareConflict ==
    \A s \in Slots :
        (InFlight(s) /\ SecondShare(reqs[s]))
        => /\ shares = reqs[s].pre.shares
           /\ Cardinality(ShareRows(reqs[s].fileId, reqs[s].body.email)) = 1
           /\ EmittedBy(s) = {}
           /\ Done(s) =>
                 reqs[s].status =
                    IF reqs[s].body.permissions \in {"view", "edit", "admin"}
                    THEN 409 ELSE 400

C10_Witness ==
    \E s \in Slots :
        /\ Done(s) /\ SecondShare(reqs[s]) /\ reqs[s].status = 409
        /\ reqs[s].body.permissions = "edit"
        /\ \E i \in DOMAIN shares :
              /\ shares[i].file_id = reqs[s].fileId
              /\ shares[i].shared_with_email = reqs[s].body.email
              /\ shares[i].permissions = "view"

\* The public share rows with the request's token when the request arrived
PublicRowsAtArrival(r) ==
    {i \in DOMAIN r.pre.shares :
        /\ r.pre.shares[i].public_token = r.body.token
        /\ r.pre.shares[i].share_type = "public"}

\* C11: GET /public/:token answers 404 when no public share has the token;
\* 410 when the share's expires_at is set and before the time of the request
\* (so a link created with expiresAt before its creation never answers 200);
\* never 410 when expires_at is null; and otherwise 200 with a download URL.
C11_PublicLinkResolution ==
    \A s \in Slots :
        (Done(s) /\ reqs[s].op = "resolvePublic")
        => LET r == reqs[s]
               rows == PublicRowsAtArrival(r)
           IN  IF rows = {} THEN r.status = 404
               ELSE \A i \in rows :
                      LET share == r.pre.shares[i]
                      IN  /\ (share.expires_at # NoExpiry
                              /\ share.expires_at < r.pre.clock)
                             => r.status = 410
                          /\ (share.expires_at # NoExpiry
                              /\ share.expires_at < share.created_at)
                             => r.status # 200
                          /\ share.expires_at = NoExpiry
                             => r.status = 200 /\ r.code = "downloadUrl"
                          /\ r.status \in {200, 410}
                          /\ r.status = 410 => share.expires_at < clock

C11_Witness ==
    \E s \in Slots :
        /\ Done(s) /\ reqs[s].op = "resolvePublic" /\ reqs[s].status = 410
        /\ \E i \in PublicRowsAtArrival(reqs[s]) :
              /\ shares[i].expires_at < shares[i].created_at
              /\ shares[i].expires_at # NoExpiry
        /\ \E i \in DOMAIN shares :
              /\ shares[i].share_type = "public"
              /\ shares[i].expires_at = NoExpiry

\* storage_used and file_count of user u in the quota table q (no row: 0, 0)
UsageIn(q, u) ==
    IF u \in DOMAIN q
    THEN [storage_used |-> q[u].storage_used, file_count |-> q[u].file_count]
    ELSE [storage_used |-> 0, file_count |-> 0]

\* C12: once an upload of size s has been answered 200, the user's
\* storage_used is s above and the user's file_count 1 above what they were
\* when the upload arrived.
C12_UploadCountsUsage ==
    \A s \in Slots :
        (Done(s) /\ reqs[s].op = "upload" /\ reqs[s].status = 200)
        => LET r == reqs[s]
               before == UsageIn(r.pre.user_quotas, r.userId)
               after == UsageIn(user_quotas, r.userId)
           IN  /\ after.storage_used = before.storage_used + r.body.size
               /\ after.file_count = before.file_count + 1

\* file_count + 1 > file_count_limit in the quota table the request found
\* (no row: count 0, limit 10000)
OverFileCountLimit(r) ==
    LET q == r.pre.user_quotas
    IN  IF r.userId \in DOMAIN q
        THEN q[r.userId].file_count + 1 > q[r.userId].file_count_limit
        ELSE 0 + 1 > 10000

\* C13: an upload within the storage limit but over the file count limit is
\* answered 403 FILE_COUNT_LIMIT_EXCEEDED and writes no blob and no files row;
\* an upload over both limits is answered STORAGE_LIMIT_EXCEEDED; an upload
\* over neither passes the quota check (it is not answered 403).
C13_FileCountLimit ==
    \A s \in Slots :
        (InFlight(s) /\ reqs[s].op = "upload" /\ reqs[s].body.hasFile)
        => LET r == reqs[s]
           IN  /\ (~OverStorageLimit(r) /\ OverFileCountLimit(r))
                  => /\ files = r.pre.files
                     /\ blobs = r.pre.blobs
                     /\ Done(s) => /\ r.status = 403
                                   /\ r.code = "FILE_COUNT_LIMIT_EXCEEDED"
               /\ (OverStorageLimit(r) /\ OverFileCountLimit(r) /\ Done(s))
                  => r.status = 403 /\ r.code = "STORAGE_LIMIT_EXCEEDED"
               /\ (~OverStorageLimit(r) /\ ~OverFileCountLimit(r))
                  => /\ r.status # 403
                     /\ Done(s) => r.status \in {200, 500}

C13_Witness ==
    \E s \in Slots :
        /\ Done(s) /\ reqs[s].op = "upload" /\ reqs[s].body.hasFile
        /\ ~OverStorageLimit(reqs[s]) /\ OverFileCountLimit(reqs[s])
        /\ reqs[s].status = 403
        /\ reqs[s].code = "FILE_COUNT_LIMIT_EXCEEDED"

\* The rows reached from row f in n steps along parent_id
RECURSIVE AncestorsWithin(_, _)
AncestorsWithin(f, n) ==
    IF n = 0 \/ f \notin DOMAIN files \/ files[f].parent_id = NoParent
    THEN {}
    ELSE {files[f].parent_id} \cup AncestorsWithin(files[f].parent_id, n - 1)

\* C14: every files row has parent_id null or the id of a files row of the
\* same user, and no row is reached from itself along parent_id.
C14_TreeInvariant ==
    \A f \in DOMAIN files :
        /\ files[f].parent_id # NoParent
           => /\ files[f].parent_id \in DOMAIN files
              /\ files[files[f].parent_id].user_id = files[f].user_id
        /\ f \notin AncestorsWithin(f, Cardinality(DOMAIN files))

\* C15: every files row with is_folder true has size 0.
C15_FolderSizeZero ==
    \A f \in DOMAIN files : files[f].is_folder => files[f].size = 0

\* The requests that change a file, a folder, a version or a share
Mutations ==
    {"upload", "createFolder", "patch", "softDelete", "restore",
     "permanentDelete", "createVersion", "restoreVersion", "share",
     "revokeShare", "createPublic", "revokePublic"}

\* The request has created, changed or removed a row
Changed(r) ==
    \/ files # r.pre.files
    \/ file_versions # r.pre.file_versions
    \/ shares # r.pre.shares

\* C16: a mutation that is answered 200 and has changed a row has emitted
\* exactly one event, to the room of the acting user; a mutation that is
\* answered anything else has emitted none.
C16_OneEventPerMutation ==
    \A s \in Slots :
        (Done(s) /\ reqs[s].op \in Mutations)
        => /\ (reqs[s].status = 200 /\ Changed(reqs[s]))
              => /\ reqs[s].emitted = 1
                 /\ Cardinality(EmittedBy(s)) = 1
                 /\ \A e \in EmittedBy(s) : e.room = reqs[s].userId
           /\ reqs[s].status # 200
              => reqs[s].emitted = 0 /\ EmittedBy(s) = {}

\* The request carries no Bearer header, a token jwt.verify rejects, a token
\* without userId, or a token of a user without a profiles row
BadToken(r) ==
    /\ "token" \in DOMAIN r
    /\ \/ ~r.token.bearer
       \/ ~r.token.valid
       \/ r.token.userId \notin {"u1", "u2"}

C18_BadSignatureIs400 ==
    \A s \in Slots :
        (InFlight(s) /\ reqs[s].op = "webhook" /\ ~reqs[s].body.sigValid)
        => /\ user_quotas = reqs[s].pre.user_quotas
           /\ Done(s) => reqs[s].status = 400

\* C18 amended: a webhook request whose signature does not verify leaves
\* user_quotas unchanged under every setting, and is answered 400 exactly
\* when both the Stripe key and the webhook secret are set (200 otherwise).
C18_BadSignatureNotProcessed ==
    \A s \in Slots :
        (InFlight(s) /\ reqs[s].op = "webhook" /\ ~reqs[s].body.sigValid)
        => /\ user_quotas = reqs[s].pre.user_quotas
           /\ reqs[s].pc \in {"verify", "done"}
           /\ Done(s) =>
                 reqs[s].status =
                    IF config.stripe /\ config.whSecret THEN 400 ELSE 200

C18_Witness ==
    \E s \in Slots :
        /\ Done(s) /\ reqs[s].op = "webhook" /\ ~reqs[s].body.sigValid
        /\ reqs[s].status = 400
        /\ reqs[s].body.payload.type = "checkout.session.completed"
        /\ reqs[s].body.payload.userId = "u1"
        /\ reqs[s].body.payload.planId = "pro"
        /\ "u1" \in DOMAIN user_quotas
        /\ user_quotas["u1"].plan = "pro"

\* No two file_versions rows have the same file and the same version_number
NoDuplicateNumbers(versions) ==
    \A i, j \in 1..Len(versions) :
        (versions[i].file_id = versions[j].file_id
         /\ versions[i].version_number = versions[j].version_number)
        => i = j

\* Request r is about to insert a version number its file already has
LostRace(r) ==
    /\ r.op \in {"createVersion", "restoreVersion"} /\ r.pc = "insert"
    /\ \E i \in VersionsOf(r.fileId) :
          file_versions[i].version_number = r.loc.nextVersion

\* C19: when the store enforces uniqueness on (file id, version_number), no
\* step of overlapping createVersion and restoreVersion requests leaves two
\* rows of a file with the same version_number, and the insert of a request
\* that lost the read-max-then-insert race ends the request with 500 and
\* adds no row.  (The state with two equal numbers that is reachable without
\* the constraint is the witness.)
C19_UniqueVersionUnderRace ==
    [][schema.uniqueVersion
       => /\ NoDuplicateNumbers(file_versions')
          /\ \A s \in Slots :
                (InFlight(s) /\ LostRace(reqs[s]) /\ reqs'[s] # reqs[s])
                => /\ reqs'[s].pc = "done"
                   /\ reqs'[s].status = 500
                   /\ file_versions' = file_versions]_vars

C19_Witness ==
    /\ ~schema.uniqueVersion
    /\ ~NoDuplicateNumbers(file_versions)
    /\ \A s \in Slots : Done(s) /\ reqs[s].status = 200

\* The sizes of the files rows of user u in the table f
RECURSIVE StoredBy(_, _, _)
StoredBy(f, ids, u) ==
    IF ids = {} THEN 0
    ELSE LET k == CHOOSE x \in ids : TRUE
         IN  (IF f[k].user_id = u THEN f[k].size ELSE 0)
             + StoredBy(f, ids \ {k}, u)

\* What the user holds as request r arrives: storage_used plus the sizes of the
\* files rows uploads have created, against storage_limit
OverLimitAtArrival(r) ==
    LET q == r.pre.user_quotas
        stored == StoredBy(r.pre.files, DOMAIN r.pre.files, r.userId)
    IN  IF r.userId \in DOMAIN q
        THEN q[r.userId].storage_used + stored > q[r.userId].storage_limit
        ELSE stored > DefaultStorageLimit

\* Request r in slot s arrived after every other request had completed: the
\* other slots hold answered uploads whose files rows r found
ArrivedAfterOthers(s) ==
    \A x \in Slots \ {s} :
        /\ Done(x) /\ reqs[x].op = "upload" /\ reqs[x].status = 200
        /\ \E e \in EmittedBy(x) : e.id \in DOMAIN reqs[s].pre.files

\* C20: the over-limit state two overlapping uploads can produce is only
\* transient: an upload of the same user that arrives once the earlier uploads
\* have completed, with storage_used plus the sizes of the uploaded files above
\* storage_limit, does not get past the quota check but is answered 403.
C20_OverLimitIsTransient ==
    \A s \in Slots :
        (/\ InFlight(s) /\ reqs[s].op = "upload" /\ reqs[s].body.hasFile
         /\ reqs[s].pc # "quota"
         /\ ArrivedAfterOthers(s)
         /\ OverLimitAtArrival(reqs[s]))
        => reqs[s].status = 403

\* The file of request r was created and its row has since been deleted
PermanentlyDeletedAtArrival(r) ==
    r.fileId \in 1..(nextFileId - 1) /\ r.fileId \notin DOMAIN r.pre.files

\* C21: a permanent delete by the owner goes on to delete the File row
\* whether or not the blob removal failed (a 500 comes only from the row
\* deletion, and a 200 means the row is gone); by a caller who does not own
\* the file it is answered 404 and removes neither a blob nor a row; and a
\* restore from trash of a permanently deleted file is answered 404.
C21_PermanentDelete ==
    \A s \in Slots :
        LET r == reqs[s]
        IN  /\ (InFlight(s) /\ r.op = "permanentDelete" /\ OwnedAtArrival(r))
               => /\ (r.pc = "done") => r.status \in {200, 500}
                  /\ (r.pc = "done" /\ r.status = 500)
                     => "storageError" \in DOMAIN r.loc
                  /\ (r.pc = "done" /\ r.status = 200)
                     => r.fileId \notin DOMAIN files
            /\ (Done(s) /\ r.op = "permanentDelete" /\ ~OwnedAtArrival(r))
               => /\ r.status = 404
                  /\ files = r.pre.files
                  /\ blobs = r.pre.blobs
            /\ (Done(s) /\ r.op = "restore" /\ PermanentlyDeletedAtArrival(r))
               => r.status = 404 /\ files = r.pre.files

\* The blob removal failed, the row is gone and the call succeeded
C21_Witness ==
    \E s \in Slots :
        /\ Done(s) /\ reqs[s].op = "permanentDelete" /\ reqs[s].status = 200
        /\ reqs[s].loc.storageError
        /\ reqs[s].loc.path \in blobs
        /\ reqs[s].fileId \notin DOMAIN files

\* Request r may delete share row i
MayRevoke(r, i) ==
    \/ /\ r.op = "revokeShare"
       /\ r.fileId \in DOMAIN files /\ files[r.fileId].user_id = r.userId
       /\ i = r.body.shareId /\ shares[i].file_id = r.fileId
    \/ /\ r.op = "revokePublic"
       /\ shares[i].public_token = r.body.token
       /\ shares[i].owner_id = r.userId

\* C22: a step deletes a share row only on behalf of a targeted revoke whose
\* fileId is owned by the caller and whose share id and file id are the row's,
\* or of a public revoke whose token is the row's and whose caller is the
\* row's owner_id; so the row deleted always belongs to the caller, and the
\* rows that stay are unchanged.
C22_RevokeRequiresOwnership ==
    [][\A i \in DOMAIN shares :
          /\ i \in DOMAIN shares' => shares'[i] = shares[i]
          /\ i \notin DOMAIN shares'
             => \E s \in Slots :
                   /\ Running(s) /\ reqs'[s] # reqs[s]
                   /\ MayRevoke(reqs[s], i)
                   /\ shares[i].owner_id = reqs[s].userId]_vars

\* u2 has sent both revokes against a share and a link of u1, and both rows
\* are still there
C22_Witness ==
    /\ \E i \in DOMAIN shares :
          /\ shares[i].owner_id = "u1" /\ shares[i].public_token = NoToken
          /\ \E s \in Slots :
                /\ Done(s) /\ reqs[s].op = "revokeShare" /\ reqs[s].userId = "u2"
                /\ reqs[s].body.shareId = i /\ reqs[s].status \in {200, 404}
    /\ \E i \in DOMAIN shares : shares[i].public_token # NoToken

\* C23: in every reachable state, overlapping targeted-share requests of the
\* owner for the same file and email included, at most one private share row
\* exists per (file id, shared_with_email).
C23_OnePrivateSharePerPair ==
    \A i, j \in DOMAIN shares :
        (/\ shares[i].share_type = "private" /\ shares[j].share_type = "private"
         /\ shares[i].file_id = shares[j].file_id
         /\ shares[i].shared_with_email = shares[j].shared_with_email)
        => i = j

\* The file of request r was in the trash when r arrived
DeletedAtArrival(r) ==
    r.fileId \in DOMAIN r.pre.files /\ r.pre.files[r.fileId].is_deleted

\* C24: createVersion (with a blob) on a file that does not exist, is not the
\* caller's or is soft-deleted is answered 404 and writes no blob, inserts no
\* version row and leaves the File row as it was; and neither createVersion
\* nor restoreVersion changes the path of a file that is soft-deleted.
C24_NoVersionOperationInTrash ==
    \A s \in Slots :
        LET r == reqs[s]
        IN  /\ (/\ Done(s) /\ r.op = "createVersion" /\ r.body.hasFile
                /\ (~OwnedAtArrival(r) \/ DeletedAtArrival(r)))
               => /\ r.status = 404
                  /\ blobs = r.pre.blobs
                  /\ file_versions = r.pre.file_versions
                  /\ files = r.pre.files
            /\ (/\ InFlight(s) /\ r.op \in {"createVersion", "restoreVersion"}
                /\ DeletedAtArrival(r))
               => files[r.fileId].path = r.pre.files[r.fileId].path

\* The requests that take a file id
FileOperations ==
    {"patch", "softDelete", "restore", "permanentDelete", "createVersion",
     "listVersions", "restoreVersion", "share", "createPublic", "revokeShare"}

\* Request r is aimed at a file that belonged to another user when it arrived
ForeignAtArrival(r) ==
    /\ r.op \in FileOperations
    /\ r.fileId \in DOMAIN r.pre.files
    /\ r.pre.files[r.fileId].user_id # r.userId

\* The handler of r answers 400 for its body before it looks at the file
Malformed(r) ==
    \/ r.op = "createVersion" /\ ~r.body.hasFile
    \/ r.op = "restoreVersion" /\ r.body.nan
    \/ r.op = "share" /\ (\/ r.body.email = ""
                           \/ r.body.permissions \notin {"view", "edit", "admin"})

\* Nothing in the stores differs from what request r found
StoresAsAtArrival(r) ==
    /\ files = r.pre.files
    /\ file_versions = r.pre.file_versions
    /\ shares = r.pre.shares
    /\ blobs = r.pre.blobs

\* The file listing answered to r holds rows of r's user only
ListingIsOwn(r) == \A i \in r.loc.files : r.pre.files[i].user_id = r.userId

\* C25 as stated: every request of user A that takes the id of a file owned by
\* user B is answered 404 and creates, changes and deletes no row and no blob,
\* and the file listing of A holds only rows whose user_id is A.
C25_ForeignRequestIs404 ==
    \A s \in Slots :
        LET r == reqs[s]
        IN  /\ (InFlight(s) /\ ForeignAtArrival(r))
               => /\ StoresAsAtArrival(r)
                  /\ Done(s) => r.status = 404
            /\ (Done(s) /\ r.op = "listFiles") => ListingIsOwn(r)

\* C25, amended: such a request is answered 404, or 400 when its own body is
\* malformed (createVersion without a file, restoreVersion with a version
\* number that is not a number, share without email or with an invalid
\* permissions value); in both cases it creates, changes and deletes no row
\* and no blob, and the file listing of A holds only rows whose user_id is A.
C25_ForeignRequestHasNoEffect ==
    \A s \in Slots :
        LET r == reqs[s]
        IN  /\ (InFlight(s) /\ ForeignAtArrival(r))
               => /\ StoresAsAtArrival(r)
                  /\ Done(s) => r.status = IF Malformed(r) THEN 400 ELSE 404
            /\ (Done(s) /\ r.op = "listFiles") => ListingIsOwn(r)

\* u2 has been answered 404 for a well-formed request on u1's file, which has
\* a version, a share with u2 and a public link, while u2 owns a file too
C25_Witness ==
    /\ \E s \in Slots :
          /\ Done(s) /\ ForeignAtArrival(reqs[s]) /\ reqs[s].userId = "u2"
          /\ reqs[s].op = "restoreVersion" /\ reqs[s].status = 404
    /\ Len(file_versions) > 0
    /\ \E i \in DOMAIN shares : shares[i].shared_with_email = "e2"
    /\ \E i \in DOMAIN shares : shares[i].public_token # NoToken
    /\ \E i \in DOMAIN files : files[i].user_id = "u2"

\* User u owned file f, or held a share of it, in the stores p
MayRead(p, u, f) ==
    /\ f \in DOMAIN p.files
    /\ \/ p.files[f].user_id = u
       \/ \E i \in DOMAIN p.shares :
             /\ p.shares[i].file_id = f
             /\ p.shares[i].shared_with_email = profiles[u]

\* C26: while a file is soft-deleted, GET /:id/download is answered 404 for
\* its owner and for the holders of a share, and GET /public/:token for a
\* public link on the file returns no download URL.
C26_TrashedContentUnreadable ==
    \A s \in Slots :
        LET r == reqs[s]
        IN  /\ (/\ Done(s) /\ r.op = "download" /\ DeletedAtArrival(r)
                /\ MayRead(r.pre, r.userId, r.fileId))
               => r.status = 404
            /\ (/\ Done(s) /\ r.op = "resolvePublic"
                /\ \E i \in PublicRowsAtArrival(r) :
                      LET f == r.pre.shares[i].file_id
                      IN  f \in DOMAIN r.pre.files /\ r.pre.files[f].is_deleted)
               => r.status # 200 /\ r.code # "downloadUrl"

\* The storage paths the rows of files and file_versions hold
ReferencedPaths ==
    {files[i].path : i \in DOMAIN files}
    \cup {file_versions[i].path : i \in 1..Len(file_versions)}

\* C27: in every state reached once the requests sent so far have been
\* answered, every blob in object storage is the path of some files row or
\* file_versions row, and the path of every files row that is not a folder is
\* a blob in object storage.
C27_NoOrphanBlobs ==
    (\A s \in Slots : ~Running(s))
    => /\ blobs \subseteq ReferencedPaths
       /\ \A i \in DOMAIN files : ~files[i].is_folder => files[i].path \in blobs

\* C28: of two overlapping soft deletes (or two overlapping restores) of the
\* same file by its owner at most one is answered 200 and at most one
\* file:deleted (file:restored) event is emitted; the other request is
\* answered 409 unless a store call of its own failed.
C28_OneTrashRequestWins ==
    \A s, t \in Slots :
        (/\ s # t /\ Done(s) /\ Done(t)
         /\ reqs[s].op = reqs[t].op /\ reqs[s].op \in {"softDelete", "restore"}
         /\ reqs[s].fileId = reqs[t].fileId)
        => /\ ~(reqs[s].status = 200 /\ reqs[t].status = 200)
           /\ Cardinality(events) <= 1
           /\ reqs[s].status = 200 => reqs[t].status \in {409, 500}

\* The columns of a files row other than the trash flags
KeptColumns ==
    {"user_id", "name", "size", "path", "parent_id", "is_folder", "is_starred"}

\* C29: no step of a soft delete or of a restore from trash changes a files
\* row's name, parent_id, size, path or is_starred, a file_versions row, a
\* shares row or a blob; a row that is not in the trash has deleted_at null,
\* and a successful restore leaves is_deleted = false and deleted_at = null,
\* so that soft delete followed by restore gives back the row it started from.
C29_TrashRoundTrip ==
    [][\A s \in Slots :
          (/\ Running(s) /\ reqs[s].op \in {"softDelete", "restore"}
           /\ reqs'[s] # reqs[s])
          => /\ file_versions' = file_versions
             /\ shares' = shares
             /\ blobs' = blobs
             /\ DOMAIN files' = DOMAIN files
             /\ \A f \in DOMAIN files :
                   /\ \A k \in KeptColumns : files'[f][k] = files[f][k]
                   /\ f # reqs[s].fileId => files'[f] = files[f]
                   /\ ~files'[f].is_deleted => files'[f].deleted_at = "null"
             /\ (reqs[s].op = "restore" /\ reqs'[s].status = 200)
                => /\ files[reqs[s].fileId].is_deleted
                   /\ ~files'[reqs[s].fileId].is_deleted
             /\ (reqs[s].op = "softDelete" /\ reqs'[s].status = 200)
                => /\ ~files[reqs[s].fileId].is_deleted
                   /\ files'[reqs[s].fileId].is_deleted]_vars

\* File 1, renamed, starred, with a version and a share, is back from the
\* trash
C29_Witness ==
    \E s \in Slots :
        /\ Done(s) /\ reqs[s].op = "restore" /\ reqs[s].status = 200
        /\ reqs[s].pre.files[1].is_deleted
        /\ files[1] = [reqs[s].pre.files[1] EXCEPT !.is_deleted = FALSE,
                                                   !.deleted_at = "null"]
        /\ files[1].name = "b" /\ files[1].is_starred /\ files[1].path # 1
        /\ Len(file_versions) = 1 /\ DOMAIN shares # {}

\* C30: a socket is accepted only with a token that verifies and is then in
\* the one room of that token's user, a socket without such a token is
\* rejected and is in no room, every event goes to the room of the user whose
\* request emitted it, and so a socket receives no event of another user's
\* request
C30_RealtimeIsolation ==
    /\ \A e \in events : e.room = reqs[e.by].userId
    /\ \A s \in Slots :
          reqs[s].op = "connect" =>
              LET h == reqs[s].body
              IN  /\ reqs[s].loc.accepted =>
                        /\ h.token /\ h.valid
                        /\ Rooms(s) = {h.userId}
                  /\ ~(h.token /\ h.valid) =>
                        /\ ~reqs[s].loc.accepted
                        /\ reqs[s].code = "Unauthorized"
                        /\ Rooms(s) = {}
                  /\ \A e \in Receives(s) :
                        /\ reqs[s].loc.accepted
                        /\ reqs[e.by].userId = h.userId

\* u2's socket is connected while u1's share:created event about the file
\* shared with u2 is out, and does not receive it
C30_Witness ==
    /\ reqs[2].op = "connect" /\ reqs[2].loc.accepted
    /\ reqs[2].body.userId = "u2"
    /\ \E e \in events :
          /\ e.type = "share:created" /\ reqs[e.by].userId = "u1"
          /\ e.id \in DOMAIN shares /\ shares[e.id].shared_with_email = "e2"
          /\ e \notin Receives(2)

=============================================================================
